---- MODULE Spec2Model ----
(***************************************************************************)
(* A model of koa-files: the range-aware ReadStream (src/src/ReadStream.ts)*)
(* driven by Node's Readable contract, the conditional-request helpers of  *)
(* utils/http and the path check of utils/path.                            *)
(***************************************************************************)
EXTENDS Integers, Sequences, FiniteSets, TLC

\* ------------------------------------------------------------------ bounds

\* Size of the file at stat time (bytes 0 .. FileSize-1).
FileSize == 2
\* Upper bound on the number of ranges of a RangeSet.
MaxRanges == 2
\* Largest pull size N handed to _read.
MaxSize == 2
\* Length of a non-empty prefix / suffix buffer.
PadLen == 2
\* Upper bound on the number of entity tags listed in an If-Match header.
MaxTokens == 2

\* The size stat reports of a served file.
StatSize == 5

\* The longest request path, in segments.
MaxSegments == 3

\* ------------------------------------------------------------------ helpers

Min(a, b) == IF a < b THEN a ELSE b

Max(a, b) == IF a < b THEN b ELSE a

\* Buffer.subarray(begin, end): the bytes begin .. end-1 (0-based, end exclusive).
subarray(buf, begin, end) == SubSeq(buf, begin + 1, end)

\* A padding buffer that is absent (undefined) or present with its bytes.
Absent == [present |-> FALSE, data |-> <<>>]

Buf(data) == [present |-> TRUE, data |-> data]

\* const enum ReadState
PREFIX == "PREFIX"

RANGE == "RANGE"

SUFFIX == "SUFFIX"

\* ------------------------------------------------------------------ state

VARIABLES
    ranges,             \* this.ranges: the RangeSet given to the constructor
    fileLen,            \* the length of the file on disk while it is streamed
    fd,                 \* this.fd: "null" or "fd"
    constructed,        \* Readable: _construct's callback has run
    openOk,             \* fs.open succeeded for this stream
    reading,            \* this.reading
    bytesRead,          \* this.bytesRead
    currentRangeIndex,  \* this.currentRangeIndex (0-based, as in the code)
    readState,          \* this.readState
    destroyed,          \* Readable: this.destroyed
    disposeListener,    \* a once(DISPOSE_EVENT) listener is registered
    destroyError,       \* the error _destroy was called with
    reads,              \* positioned reads issued to fs.read and not yet completed
    out,                \* every byte pushed so far, in push order
    ended,              \* push(null) has been called
    closeCount,         \* number of fs.close invocations
    closePending,       \* fs.close was invoked and its callback has not run
    closedWithReadPending, \* some fs.close was invoked while a read was outstanding
    cbError,            \* the error _destroy's callback was invoked with ("unset" before)
    op,                 \* the handler that ran last
    reqHeaders,         \* request.get: the request's header fields ("" when absent)
    resHeaders,         \* response.get: the response's header fields ("" when absent)
    precondition,       \* what isPreconditionFailure returned ("unset" before)
    rangeFresh,         \* what isRangeFresh returned ("unset" before)
    method,             \* request.method
    rawPath,            \* request.path, percent-encoded, as its characters
    fsKind,             \* what the file system holds at the requested path
    ignored,            \* what options.ignore answers for the path
    options,            \* the Service's options: acceptRanges, etag, lastModified, headers
    downstream,         \* what the middleware after this one did during next(): none, responded
    pc,                 \* where the middleware and respond() are: middleware, failed,
                        \* start, ignore, stat, headers, done, returned
    outcome,            \* what respond() did: pending, handled, notHandled, 400, 412, 416
    path,               \* the file path respond() computed
    resStatus,          \* response.status
    resLength,          \* response.length (-1: not set)
    resType,            \* response.type
    resBody,            \* response.body: unset, null or stream
    calls               \* the calls respond() made on its collaborators, in order

streamVars == <<ranges, fileLen, fd, constructed, openOk, reading, bytesRead,
                currentRangeIndex, readState, destroyed, disposeListener,
                destroyError, reads, out, ended, closeCount, closePending,
                closedWithReadPending, cbError, op>>

httpVars == <<reqHeaders, resHeaders, precondition, rangeFresh>>

respondVars == <<method, rawPath, fsKind, ignored, options, downstream, pc, outcome, path,
                 resStatus, resLength, resType, resBody, calls>>

vars == <<streamVars, httpVars, respondVars>>

\* What the stream's handlers leave alone, and what the header checks leave alone.
notStream == <<httpVars, respondVars>>

notHttp == <<streamVars, respondVars>>

\* ------------------------------------------------------------------ header values

\* A header value is a string, modelled as the sequence of its characters; an HTTP
\* date is one symbol of its own. request.get / response.get give "" for a field
\* that is not set.
NoHeaders == [name \in {} |-> <<>>]

get(headers, name) == IF name \in DOMAIN headers THEN headers[name] ELSE <<>>

Quoted(x) == <<"\"", x, "\"">>

\* A weak entity tag: W/ before the quoted string.
WeakTag(x) == <<"W", "/">> \o Quoted(x)

Star == <<"*">>

IsSpace(ch) == ch = " "

\* Three spellings of HTTP dates: DateA and DateAIso name the same instant.
DateA == <<"Thu, 01 Jan 1970 00:00:01 GMT">>

DateAIso == <<"1970-01-01T00:00:01.000Z">>

DateB == <<"Thu, 01 Jan 1970 00:00:02 GMT">>

NotADate == <<"n", "o">>

\* A number that may be NaN.
NaN == [nan |-> TRUE, t |-> 0]

Num(t) == [nan |-> FALSE, t |-> t]

\* Date.parse: milliseconds since the epoch, NaN for what is not a date (an
\* entity tag, `*`, the empty string).
DateParse(value) ==
    CASE value = DateA -> Num(1000)
      [] value = DateAIso -> Num(1000)
      [] value = DateB -> Num(2000)
      [] OTHER -> NaN

isNaN(x) == x.nan

\* a > b and a === b on numbers: false when either is NaN.
Greater(a, b) == ~a.nan /\ ~b.nan /\ a.t > b.t

StrictEqual(a, b) == ~a.nan /\ ~b.nan /\ a.t = b.t

RECURSIVE TrimLeft(_)

TrimLeft(str) ==
    IF str # <<>> /\ IsSpace(Head(str)) THEN TrimLeft(Tail(str)) ELSE str

RECURSIVE TrimRight(_)

TrimRight(str) ==
    IF str # <<>> /\ IsSpace(str[Len(str)])
    THEN TrimRight(SubSeq(str, 1, Len(str) - 1))
    ELSE str

\* String.prototype.trim
trim(str) == TrimRight(TrimLeft(str))

RECURSIVE SplitComma(_, _)

\* The pieces of str between its commas; `piece` is the piece being gathered.
SplitComma(str, piece) ==
    IF str = <<>> THEN <<piece>>
    ELSE IF Head(str) = ","
         THEN <<piece>> \o SplitComma(Tail(str), <<>>)
         ELSE SplitComma(Tail(str), Append(piece, Head(str)))

\* parseTokens: value.trim().split(/\s*,\s*/). The separator takes the white space
\* on both sides of each comma, so every piece comes out trimmed.
parseTokens(value) ==
    LET pieces == SplitComma(trim(value), <<>>)
    IN [i \in 1..Len(pieces) |-> trim(pieces[i])]

\* ------------------------------------------------------------------ utils/http

\* isETagMatching(match, etag)
isETagMatching(match, etag) ==
    \/ match = etag
    \/ match = <<"W", "/">> \o etag
    \/ <<"W", "/">> \o match = etag

\* isConditionalGET
isConditionalGET(req) ==
    \/ get(req, "If-Match") # <<>>
    \/ get(req, "If-None-Match") # <<>>
    \/ get(req, "If-Modified-Since") # <<>>
    \/ get(req, "If-Unmodified-Since") # <<>>

\* The If-Unmodified-Since half of isPreconditionFailure.
UnmodifiedSinceFailure(req, res) ==
    LET unmodifiedSinceDate == DateParse(get(req, "If-Unmodified-Since"))
        lastModifiedDate == DateParse(get(res, "Last-Modified"))
    IN IF ~isNaN(unmodifiedSinceDate)
       THEN isNaN(lastModifiedDate) \/ Greater(lastModifiedDate, unmodifiedSinceDate)
       ELSE FALSE

\* The If-Match half of isPreconditionFailure.
MatchFailure(match, etag) ==
    \/ etag = <<>>
    \/ /\ match # Star
       /\ ~\E i \in 1..Len(parseTokens(match)) : isETagMatching(parseTokens(match)[i], etag)

\* An If-Match check that fails on `*` (src/src/utils/http.ts:146).
isPreconditionFailureStarFails(req, res) ==
    LET match == get(req, "If-Match")
        etag == get(res, "ETag")
    IN IF match # <<>>
       THEN \/ etag = <<>>
            \/ match = Star
            \/ ~\E i \in 1..Len(parseTokens(match)) : isETagMatching(parseTokens(match)[i], etag)
       ELSE UnmodifiedSinceFailure(req, res)

\* A check that goes on to If-Unmodified-Since when If-Match is satisfied.
isPreconditionFailureBoth(req, res) ==
    LET match == get(req, "If-Match")
    IN (match # <<>> /\ MatchFailure(match, get(res, "ETag")))
       \/ UnmodifiedSinceFailure(req, res)

\* isPreconditionFailure
isPreconditionFailure(req, res) ==
    LET match == get(req, "If-Match")
    IN IF match # <<>>
       THEN MatchFailure(match, get(res, "ETag"))
       ELSE UnmodifiedSinceFailure(req, res)

\* An If-Range date check that takes any Last-Modified not after the date
\* (src/src/utils/http.ts:88).
isRangeFreshNotAfter(req, res) ==
    LET ifRange == get(req, "If-Range")
        ifRangeDate == DateParse(ifRange)
        etag == get(res, "ETag")
        lastModifiedDate == DateParse(get(res, "Last-Modified"))
    IN IF ifRange = <<>> THEN TRUE
       ELSE IF isNaN(ifRangeDate)
            THEN etag # <<>> /\ isETagMatching(ifRange, etag)
            ELSE ~isNaN(lastModifiedDate) /\ ~Greater(lastModifiedDate, ifRangeDate)

\* isRangeFresh
isRangeFresh(req, res) ==
    LET ifRange == get(req, "If-Range")
        ifRangeDate == DateParse(ifRange)
        etag == get(res, "ETag")
        lastModifiedDate == DateParse(get(res, "Last-Modified"))
    IN IF ifRange = <<>> THEN TRUE
       ELSE IF isNaN(ifRangeDate)
            THEN etag # <<>> /\ isETagMatching(ifRange, etag)
            ELSE ~isNaN(lastModifiedDate) /\ StrictEqual(lastModifiedDate, ifRangeDate)

\* ------------------------------------------------------------------ header inputs

\* Entity tags a client lists in If-Match.
MatchTokens == {Star, Quoted("x"), WeakTag("x"), Quoted("y")}

\* What stands between two listed tags.
Separators == {<<",">>, <<",", " ">>, <<" ", ",", " ">>}

RECURSIVE Join(_, _)

Join(tokens, sep) ==
    IF Len(tokens) = 1 THEN tokens[1]
    ELSE tokens[1] \o sep \o Join(Tail(tokens), sep)

IfMatchValues ==
    {<<>>} \cup MatchTokens
    \cup UNION {{Join(ts, sep) : ts \in [1..n -> MatchTokens], sep \in Separators} :
                n \in 2..MaxTokens}

ETagValues == {<<>>, Quoted("x"), WeakTag("x"), Quoted("y"), WeakTag("y")}

LastModifiedValues == {<<>>, DateA, DateB, NotADate}

IfUnmodifiedSinceValues == {<<>>, DateA, DateAIso, DateB, NotADate}

IfRangeValues == {<<>>, DateA, DateAIso, DateB, Quoted("x"), WeakTag("x"), Quoted("y"), Star}

\* The header fields of a request, those that are absent left out.
Fields(values) ==
    [name \in {n \in DOMAIN values : values[n] # <<>>} |-> values[name]]

\* ------------------------------------------------------------------ utils/path

\* A path string is the sequence of its characters. request.path is
\* percent-encoded: an escape is one symbol, "%" alone an escape cut short.
MalformedEscapes == {"%", "%ff"}

\* decodeURIComponent on one symbol.
DecodeSymbol(ch) ==
    CASE ch = "%2e" -> "."
      [] ch = "%2f" -> "/"
      [] ch = "%5c" -> "\\"
      [] ch = "%00" -> "NUL"
      [] OTHER -> ch

\* A decoding that never throws: an escape cut short stays as it is.
decodeURILenient(URI) ==
    [ok |-> TRUE, value |-> [i \in 1..Len(URI) |-> DecodeSymbol(URI[i])]]

\* decodeURI(URI): the decoded string, or -1 (ok = FALSE) when decoding throws.
decodeURI(URI) ==
    IF \E i \in 1..Len(URI) : URI[i] \in MalformedEscapes
    THEN [ok |-> FALSE, value |-> <<>>]
    ELSE [ok |-> TRUE, value |-> [i \in 1..Len(URI) |-> DecodeSymbol(URI[i])]]

RECURSIVE SplitOn(_, _, _)

\* The segments of str between the separators of seps.
SplitOn(str, seps, piece) ==
    IF str = <<>> THEN <<piece>>
    ELSE IF Head(str) \in seps
         THEN <<piece>> \o SplitOn(Tail(str), seps, <<>>)
         ELSE SplitOn(Tail(str), seps, Append(piece, Head(str)))

DotDot == <<".", ".">>

RECURSIVE NormalizeSegments(_, _)

\* path.normalize on the segments of an absolute path: empty and "." segments
\* go, ".." takes the segment before it (none at the top).
NormalizeSegments(segs, done) ==
    IF segs = <<>> THEN done
    ELSE LET seg == Head(segs)
         IN IF seg = <<>> \/ seg = <<".">>
            THEN NormalizeSegments(Tail(segs), done)
            ELSE IF seg = DotDot
                 THEN NormalizeSegments(Tail(segs),
                          IF done = <<>> THEN done ELSE SubSeq(done, 1, Len(done) - 1))
                 ELSE NormalizeSegments(Tail(segs), Append(done, seg))

\* join(root, pathname): the segments below "/" of the normalized result, and
\* whether it ends with a slash (as pathname does). A segment may hold a
\* backslash: for path.posix it is a character like another.
join(root, pathname) ==
    [segs |-> NormalizeSegments(root \o SplitOn(pathname, {"/"}, <<>>), <<>>),
     slash |-> pathname # <<>> /\ pathname[Len(pathname)] = "/"]

RECURSIVE SplitEach(_, _)

\* Every segment of segs from the i-th on, split at its backslashes.
SplitEach(segs, i) ==
    IF i > Len(segs) THEN <<>>
    ELSE SplitOn(segs[i], {"\\"}, <<>>) \o SplitEach(segs, i + 1)

\* unixify(path): every backslash becomes a slash, so a segment that holds one
\* falls into several, which nothing normalizes.
unixify(p) ==
    [segs |-> SplitEach(p.segs, 1),
     slash |-> \/ p.slash
               \/ /\ p.segs # <<>>
                  /\ p.segs[Len(p.segs)] # <<>>
                  /\ p.segs[Len(p.segs)][Len(p.segs[Len(p.segs)])] = "\\"]

\* hasTrailingSlash(path): /\/$/
hasTrailingSlash(p) == p.slash

\* The longest common prefix of two segment lists.
CommonLength(a, b) ==
    LET same == {n \in 0..Min(Len(a), Len(b)) : \A i \in 1..n : a[i] = b[i]}
    IN CHOOSE n \in same : \A k \in same : k <= n

\* path.relative(from, to) for absolute paths: both are resolved, then one ".."
\* for each segment of `from` past the common prefix, then the rest of `to`.
relative(from, to) ==
    LET f == NormalizeSegments(from, <<>>)
        t == NormalizeSegments(to, <<>>)
        n == CommonLength(f, t)
    IN [i \in 1..(Len(f) - n) |-> DotDot] \o SubSeq(t, n + 1, Len(t))

\* /\.\.(?:[\\/]|$)/ on one segment of a path: ".." before a separator or the end.
SegmentHasDotDot(seg) ==
    \E i \in 1..(Len(seg) - 1) :
        /\ seg[i] = "." /\ seg[i + 1] = "."
        /\ (i + 1 = Len(seg) \/ seg[i + 2] = "\\")

\* A check that never finds a path out of the root.
isOutRootNever(p, root) == FALSE

\* isOutRoot(path, root). path.relative never returns an absolute POSIX path.
isOutRoot(p, root) ==
    LET rel == relative(root, p.segs)
    IN \E i \in 1..Len(rel) : SegmentHasDotDot(rel[i])

\* The Service's root, resolve(root) unixified: /s/w.
Root == <<<<"s">>, <<"w">>>>

\* ------------------------------------------------------------------ range-parser

\* parseInt(str, 10) on the characters of str: white space is skipped, the digits
\* that follow are read, NaN when there is none.
DigitValue(ch) ==
    CASE ch = "0" -> 0 [] ch = "1" -> 1 [] ch = "2" -> 2 [] ch = "3" -> 3
      [] ch = "4" -> 4 [] ch = "5" -> 5 [] ch = "6" -> 6 [] ch = "7" -> 7
      [] ch = "8" -> 8 [] ch = "9" -> 9 [] OTHER -> -1

RECURSIVE Digits(_, _)

\* The value of the digits str starts with, after the value `acc` read so far.
Digits(str, acc) ==
    IF str = <<>> \/ DigitValue(Head(str)) < 0 THEN acc
    ELSE Digits(Tail(str), 10 * acc + DigitValue(Head(str)))

parseInt(str) ==
    LET t == TrimLeft(str)
    IN IF t = <<>> \/ DigitValue(Head(t)) < 0 THEN NaN ELSE Num(Digits(t, 0))

\* A byte-range-spec read as start and end, against size: the end is cut to the
\* last byte; [ok |-> FALSE] when the spec is invalid or unsatisfiable and skipped.
ClampSpec(start, end, size) ==
    IF isNaN(start) \/ start.t > Min(end.t, size - 1) \/ start.t < 0
    THEN [ok |-> FALSE, start |-> 0, end |-> 0]
    ELSE [ok |-> TRUE, start |-> start.t, end |-> Min(end.t, size - 1)]

\* -nnn counts from the end of the file, nnn- runs to it.
SpecRange(start, end, size) ==
    ClampSpec(IF isNaN(start) THEN (IF isNaN(end) THEN NaN ELSE Num(size - end.t))
              ELSE start,
              IF isNaN(start) \/ isNaN(end) THEN Num(size - 1) ELSE end,
              size)

\* One byte-range-spec of a Range header, as range-parser reads it against size.
parseSpec(spec, size) ==
    LET parts == SplitOn(spec, {"-"}, <<>>)
    IN SpecRange(parseInt(parts[1]),
                 IF Len(parts) >= 2 THEN parseInt(parts[2]) ELSE NaN,
                 size)

RECURSIVE InsertByStart(_, _)

\* list, sorted by start, with r put after the entries that start no later.
InsertByStart(list, r) ==
    IF list = <<>> THEN <<r>>
    ELSE IF Head(list).start <= r.start
         THEN <<Head(list)>> \o InsertByStart(Tail(list), r)
         ELSE <<r>> \o list

RECURSIVE SortByStart(_)

\* ranges.map(mapWithIndex).sort(sortByRangeStart), a stable sort.
SortByStart(list) ==
    IF list = <<>> THEN <<>>
    ELSE InsertByStart(SortByStart(SubSeq(list, 1, Len(list) - 1)), list[Len(list)])

RECURSIVE InsertByIndex(_, _)

InsertByIndex(list, r) ==
    IF list = <<>> THEN <<r>>
    ELSE IF Head(list).index <= r.index
         THEN <<Head(list)>> \o InsertByIndex(Tail(list), r)
         ELSE <<r>> \o list

RECURSIVE SortByIndex(_)

\* ordered.sort(sortByRangeIndex)
SortByIndex(list) ==
    IF list = <<>> THEN <<>>
    ELSE InsertByIndex(SortByIndex(SubSeq(list, 1, Len(list) - 1)), list[Len(list)])

RECURSIVE Merge(_, _)

\* The loop of combineRanges over the ranges sorted by start: `done` ends with the
\* current range, which the next one extends, falls into or follows.
Merge(ordered, done) ==
    IF ordered = <<>> THEN done
    ELSE LET range == Head(ordered)
             current == done[Len(done)]
         IN IF range.start > current.end + 1
            THEN Merge(Tail(ordered), Append(done, range))
            ELSE IF range.end > current.end
                 THEN Merge(Tail(ordered),
                        [done EXCEPT ![Len(done)] =
                            [start |-> current.start, end |-> range.end,
                             index |-> Min(current.index, range.index)]])
                 ELSE Merge(Tail(ordered), done)

\* A combination that leaves the ranges as they are listed.
combineRangesNone(list) == list

\* combineRanges(ranges)
combineRanges(list) ==
    LET ordered == SortByStart([i \in 1..Len(list) |->
                       [start |-> list[i].start, end |-> list[i].end, index |-> i]])
        merged == SortByIndex(Merge(Tail(ordered), <<Head(ordered)>>))
    IN [i \in 1..Len(merged) |-> [start |-> merged[i].start, end |-> merged[i].end]]

\* The position of the first "=" of str, 0 when it has none: str.indexOf('=').
IndexOfEquals(str) ==
    IF \E i \in 1..Len(str) : str[i] = "="
    THEN CHOOSE i \in 1..Len(str) : str[i] = "=" /\ \A j \in 1..(i - 1) : str[j] # "="
    ELSE 0

\* The entries of list that are ok, in order.
Satisfiable(list) == SelectSeq(list, LAMBDA r : r.ok)

\* A parser that takes a header without a satisfiable range for the whole file.
parseRangeOrAll(size, str) ==
    LET index == IndexOfEquals(str)
        arr == SplitOn(SubSeq(str, index + 1, Len(str)), {","}, <<>>)
        found == Satisfiable([i \in 1..Len(arr) |-> parseSpec(arr[i], size)])
    IN IF index = 0 THEN [code |-> -2, type |-> <<>>, ranges |-> <<>>]
       ELSE [code |-> 0, type |-> SubSeq(str, 1, index - 1),
             ranges |-> IF found = <<>> THEN <<[start |-> 0, end |-> size - 1]>>
                        ELSE combineRanges(found)]

\* parseRange(size, str, { combine: true }): code -2 for a header without "=",
\* -1 when no range is satisfiable, else code 0 with the unit and the ranges.
parseRange(size, str) ==
    LET index == IndexOfEquals(str)
        arr == SplitOn(SubSeq(str, index + 1, Len(str)), {","}, <<>>)
        found == Satisfiable([i \in 1..Len(arr) |-> parseSpec(arr[i], size)])
    IN IF index = 0 THEN [code |-> -2, type |-> <<>>, ranges |-> <<>>]
       ELSE IF found = <<>> THEN [code |-> -1, type |-> <<>>, ranges |-> <<>>]
            ELSE [code |-> 0, type |-> SubSeq(str, 1, index - 1),
                  ranges |-> combineRanges(found)]

\* ------------------------------------------------------------------ Service options

\* The options of a Service built without any: ranges accepted, ETag and
\* Last-Modified generated, no headers of its own. acceptRanges, etag and
\* lastModified are FALSE when the option is false, TRUE otherwise.
DefaultOptions ==
    [acceptRanges |-> TRUE, etag |-> TRUE, lastModified |-> TRUE, headers |-> NoHeaders,
     defer |-> FALSE]

\* ------------------------------------------------------------------ inputs

\* The byte stored at file position p is p itself, so a duplicated, dropped or
\* reordered body byte shows in `out`. Padding bytes are 100.. and 200.. .
PrefixBytes == [j \in 1..PadLen |-> 100 + j]

SuffixBytes == [j \in 1..PadLen |-> 200 + j]

\* How a RangeSet is padded. "bare": no range has a prefix or a suffix (full file,
\* single range); "empty": every range has empty buffers; "multipart": every range
\* has a prefix and the last one the closing suffix (parseRanges' multipart set);
\* "full": every range has both; "suffix": every range has a suffix only.
PaddingStyles == {"bare", "empty", "multipart", "full", "suffix"}

PrefixOf(style) ==
    CASE style \in {"multipart", "full"} -> Buf(PrefixBytes)
      [] style = "empty" -> Buf(<<>>)
      [] OTHER -> Absent

SuffixOf(style, last) ==
    CASE style \in {"full", "suffix"} -> Buf(SuffixBytes)
      [] style = "multipart" /\ last -> Buf(SuffixBytes)
      [] style = "empty" -> Buf(<<>>)
      [] OTHER -> Absent

\* The byte ranges a Range can cover: offset + length inside the file as stat saw it.
Slices == UNION {{[offset |-> o, length |-> l] : l \in 0..(FileSize - o)} : o \in 0..FileSize}

\* interface Range { offset; length; prefix?; suffix? }
MakeRange(slice, style, last) ==
    [offset |-> slice.offset, length |-> slice.length,
     prefix |-> PrefixOf(style), suffix |-> SuffixOf(style, last)]

RangeSets ==
    UNION {{[i \in 1..n |-> MakeRange(f[i], style, i = n)] :
              f \in [1..n -> Slices], style \in PaddingStyles} : n \in 0..MaxRanges}

\* The file is as long as stat reported, or has lost its last byte since.
FileLens == {FileSize, FileSize - 1}

\* Pull sizes handed to _read (N >= 1).
Sizes == 1..MaxSize

\* ------------------------------------------------------------------ ReadStream

\* a ?? b on errors, "none" standing for null / undefined.
Coalesce(a, b) == IF a # "none" THEN a ELSE b

\* getRange(): this.ranges[this.currentRangeIndex], undefined past the end.
hasRange(idx) == idx < Len(ranges)

getRange(idx) == ranges[idx + 1]

\* getPadding(range): the prefix in PREFIX, the suffix in SUFFIX, else undefined.
getPadding(range, state) ==
    CASE state = PREFIX -> range.prefix
      [] state = SUFFIX -> range.suffix
      [] OTHER -> Absent

\* The cursor a handler works on: the fields readFilePadding / readFileRange touch.
Cursor == [bytesRead |-> bytesRead, idx |-> currentRangeIndex, readState |-> readState,
           out |-> out, ended |-> ended, reads |-> reads, reading |-> reading]

\* A read that always starts at the range's offset.
ReadPositionAtOffset(range, n) == range.offset

\* fs.read's position argument.
ReadPosition(range, n) == range.offset + n

\* A buffer as long as the pull asks for, whatever was read of the range.
ReadLengthOfPull(range, n, size) == Min(size, range.length)

\* The length of the buffer allocated for a read: Math.min(size, range.length - bytesRead).
ReadLength(range, n, size) == Min(size, range.length - n)

\* readFileRange up to the call of fs.read: set this.reading and issue the read.
readFileRange(c, r, size) ==
    LET range == getRange(r)
    IN [c EXCEPT !.reading = TRUE,
                 !.reads = Append(c.reads,
                     [position |-> ReadPosition(range, c.bytesRead),
                      length |-> ReadLength(range, c.bytesRead, size),
                      size |-> size, range |-> r])]

\* Whether readFilePadding has bytes of the padding left to push.
PaddingLeft(padding, begin) ==
    padding.present /\ Len(padding.data) > 0 /\ begin < Len(padding.data)

\* The number of padding bytes one call pushes: Math.min(size, length - begin).
PaddingChunk(padding, begin, size) == Min(size, Len(padding.data) - begin)

\* A readFilePadding that returns once it has changed the phase, without going
\* on into the new phase.
readFilePaddingReturns(c, r, size) ==
    LET range == getRange(r)
        padding == getPadding(range, c.readState)
        begin == c.bytesRead
        left == PaddingLeft(padding, begin)
        n == IF left THEN PaddingChunk(padding, begin, size) ELSE 0
    IN IF left /\ n > 0
       THEN [c EXCEPT !.out = c.out \o subarray(padding.data, begin, begin + n),
                      !.bytesRead = begin + n]
       ELSE CASE c.readState = PREFIX -> [c EXCEPT !.bytesRead = 0, !.readState = RANGE]
              [] c.readState = SUFFIX ->
                   [c EXCEPT !.bytesRead = 0, !.idx = c.idx + 1, !.readState = PREFIX,
                             !.ended = ~hasRange(c.idx + 1)]
              [] OTHER -> [c EXCEPT !.bytesRead = 0]

RECURSIVE readFilePadding(_, _, _)

\* readFilePadding(fd, range, size), with its synchronous chaining into the next
\* phase (readFileRange, the next range's padding, or push(null)).
readFilePadding(c, r, size) ==
    LET range == getRange(r)
        padding == getPadding(range, c.readState)
        begin == c.bytesRead
        left == PaddingLeft(padding, begin)
        n == IF left THEN PaddingChunk(padding, begin, size) ELSE 0
        c1 == IF left
              THEN [c EXCEPT !.out = c.out \o subarray(padding.data, begin, begin + n),
                             !.bytesRead = begin + n]
              ELSE c
    IN IF n <= 0
       THEN LET c2 == [c1 EXCEPT !.bytesRead = 0]
            IN CASE c2.readState = PREFIX ->
                      readFileRange([c2 EXCEPT !.readState = RANGE], r, size)
                 [] c2.readState = SUFFIX ->
                      LET c3 == [c2 EXCEPT !.idx = c2.idx + 1, !.readState = PREFIX]
                      IN IF ~hasRange(c3.idx)
                         THEN [c3 EXCEPT !.ended = TRUE]
                         ELSE readFilePadding(c3, c3.idx, size)
                 [] OTHER -> c2
       ELSE c1

\* A _read that does not look at this.reading.
ReadGuardOpen(c) == TRUE

\* Whether _read does anything: the `if (!this.reading)` guard.
ReadGuard(c) == ~c.reading

\* _read(size) as a function of the cursor.
readCursor(c, size) ==
    IF ReadGuard(c)
    THEN IF fd = "null" \/ ~hasRange(c.idx)
         THEN [c EXCEPT !.ended = TRUE]
         ELSE IF c.readState \in {PREFIX, SUFFIX}
              THEN readFilePadding(c, c.idx, size)
              ELSE readFileRange(c, c.idx, size)
    ELSE c

\* The fields of the stream a cursor is written back to.
SetCursor(c) ==
    /\ bytesRead' = c.bytesRead
    /\ currentRangeIndex' = c.idx
    /\ readState' = c.readState
    /\ out' = c.out
    /\ ended' = c.ended
    /\ reads' = c.reads
    /\ reading' = c.reading

\* A dispose that closes the descriptor only when there is no error to report.
disposeUnlessError(error, pending) ==
    IF fd # "null" /\ error = "none"
    THEN /\ fd' = "null"
         /\ closeCount' = closeCount + 1
         /\ closePending' = TRUE
         /\ closedWithReadPending' = (closedWithReadPending \/ pending)
         /\ destroyError' = error
         /\ cbError' = cbError
    ELSE /\ cbError' = error
         /\ destroyError' = error
         /\ UNCHANGED <<fd, closeCount, closePending, closedWithReadPending>>

\* dispose(error, callback): close the descriptor if there is one, else call back.
\* `pending` tells whether a positioned read is outstanding when close is invoked.
dispose(error, pending) ==
    IF fd # "null"
    THEN /\ fd' = "null"
         /\ closeCount' = closeCount + 1
         /\ closePending' = TRUE
         /\ closedWithReadPending' = (closedWithReadPending \/ pending)
         /\ destroyError' = error
         /\ cbError' = cbError
    ELSE /\ cbError' = error
         /\ destroyError' = error
         /\ UNCHANGED <<fd, closeCount, closePending, closedWithReadPending>>

\* A _destroy that never waits.
DestroyNeverWaits == FALSE

\* Whether _destroy has to wait for a read's completion: `if (this.reading)`.
DestroyWaits == reading

\* _destroy(error, callback): wait for the outstanding read, or dispose now.
destroyImpl(error, pending) ==
    IF DestroyWaits
    THEN /\ disposeListener' = TRUE
         /\ destroyError' = error
         /\ UNCHANGED <<fd, closeCount, closePending, closedWithReadPending, cbError>>
    ELSE /\ dispose(error, pending)
         /\ UNCHANGED disposeListener

\* A _construct that keeps what fs.open handed back as the descriptor, failed
\* or not.
ConstructKeepsFd(ok) ==
    /\ ~constructed
    /\ constructed' = TRUE
    /\ openOk' = ok
    /\ op' = "construct"
    /\ fd' = "fd"
    /\ IF destroyed \/ ~ok
       THEN /\ destroyed' = TRUE
            /\ cbError' = IF ok THEN cbError ELSE "open"
            /\ destroyError' = IF ok THEN destroyError ELSE "open"
            /\ UNCHANGED <<closeCount, closePending, closedWithReadPending>>
       ELSE UNCHANGED <<destroyed, closeCount, closePending, closedWithReadPending,
                        cbError, destroyError>>
    /\ UNCHANGED <<notStream, ranges, fileLen, reading, bytesRead, currentRangeIndex, readState,
                   disposeListener, reads, out, ended>>

\* _construct: fs.open completes. Readable then runs a destroy that was asked for
\* during the open, or destroys the stream with the open error.
Construct(ok) ==
    /\ ~constructed
    /\ constructed' = TRUE
    /\ openOk' = ok
    /\ op' = "construct"
    /\ IF destroyed \/ ~ok
       THEN /\ destroyed' = TRUE
            /\ IF ok
               THEN /\ fd' = "null"
                    /\ closeCount' = closeCount + 1
                    /\ closePending' = TRUE
                    /\ destroyError' = destroyError
                    /\ UNCHANGED <<cbError, closedWithReadPending>>
               ELSE /\ cbError' = "open"
                    /\ destroyError' = "open"
                    /\ UNCHANGED <<fd, closeCount, closePending, closedWithReadPending>>
       ELSE /\ fd' = "fd"
            /\ UNCHANGED <<destroyed, closeCount, closePending, closedWithReadPending,
                           cbError, destroyError>>
    /\ UNCHANGED <<notStream, ranges, fileLen, reading, bytesRead, currentRangeIndex, readState,
                   disposeListener, reads, out, ended>>

\* _read(size): Readable pulls only from a constructed stream that is neither
\* destroyed nor ended.
_read(size) ==
    /\ constructed /\ ~destroyed /\ ~ended
    /\ SetCursor(readCursor(Cursor, size))
    /\ op' = IF reading THEN "readBusy" ELSE "read"
    /\ UNCHANGED <<notStream, ranges, fileLen, fd, constructed, openOk, destroyed, disposeListener,
                   destroyError, closeCount, closePending, closedWithReadPending, cbError>>

\* What fs.read can deliver for a request: the bytes the file holds from its
\* position, at least one when there is one and the buffer has room.
Available(req) == Max(0, Min(req.length, fileLen - req.position))

ReadCounts(req) == IF Available(req) = 0 THEN {0} ELSE 1..Available(req)

\* The bytes a read of n bytes at `position` puts in the buffer.
FileBytes(position, n) == [j \in 1..n |-> position + j - 1]

\* A completion that starts the range over when no byte was read.
readDoneCursorRestart(c, req, n) ==
    IF n > 0
    THEN [c EXCEPT !.out = c.out \o FileBytes(req.position, n),
                   !.bytesRead = c.bytesRead + n]
    ELSE readFilePadding([c EXCEPT !.bytesRead = 0, !.readState = PREFIX],
                         req.range, req.size)

\* A completion that leaves the cursor alone when no byte was read.
readDoneCursorStall(c, req, n) ==
    IF n > 0
    THEN [c EXCEPT !.out = c.out \o FileBytes(req.position, n),
                   !.bytesRead = c.bytesRead + n]
    ELSE c

\* A completion that issues the read again when no byte was read.
readDoneCursorRetry(c, req, n) ==
    IF n > 0
    THEN [c EXCEPT !.out = c.out \o FileBytes(req.position, n),
                   !.bytesRead = c.bytesRead + n]
    ELSE readFileRange(c, req.range, req.size)

\* The completion callback of fs.read, for a read without error.
readDoneCursor(c, req, n) ==
    IF n > 0
    THEN [c EXCEPT !.out = c.out \o FileBytes(req.position, n),
                   !.bytesRead = c.bytesRead + n]
    ELSE readFilePadding([c EXCEPT !.bytesRead = 0, !.readState = SUFFIX],
                         req.range, req.size)

\* A completion callback of fs.read that takes an error for a read of no bytes.
ReadDoneErrorIgnored(i, error, n) ==
    /\ i \in 1..Len(reads)
    /\ error # "none" \/ n \in ReadCounts(reads[i])
    /\ op' = IF error # "none" THEN "readError" ELSE "readDone"
    /\ LET req == reads[i]
           rest == SubSeq(reads, 1, i - 1) \o SubSeq(reads, i + 1, Len(reads))
           c0 == [Cursor EXCEPT !.reading = FALSE, !.reads = rest]
       IN IF destroyed
          THEN /\ SetCursor(c0)
               /\ IF disposeListener
                  THEN /\ disposeListener' = FALSE
                       /\ dispose(Coalesce(destroyError, error), rest # <<>>)
                  ELSE UNCHANGED <<disposeListener, fd, closeCount, closePending,
                                   closedWithReadPending, cbError, destroyError>>
               /\ UNCHANGED destroyed
          ELSE /\ SetCursor(readDoneCursor(c0, req, n))
               /\ UNCHANGED <<destroyed, disposeListener, fd, closeCount,
                              closePending, closedWithReadPending, cbError,
                              destroyError>>
    /\ UNCHANGED <<notStream, ranges, fileLen, constructed, openOk>>

\* A completion callback of fs.read that looks at this.destroyed only after it
\* has dealt with the bytes read.
ReadDoneDestroyedLast(i, error, n) ==
    /\ i \in 1..Len(reads)
    /\ error # "none" \/ n \in ReadCounts(reads[i])
    /\ op' = IF error # "none" THEN "readError" ELSE "readDone"
    /\ LET req == reads[i]
           rest == SubSeq(reads, 1, i - 1) \o SubSeq(reads, i + 1, Len(reads))
           c0 == [Cursor EXCEPT !.reading = FALSE, !.reads = rest]
       IN IF destroyed
          THEN /\ SetCursor(IF error # "none" THEN c0
                            ELSE [readDoneCursor(c0, req, n) EXCEPT !.reading = FALSE,
                                                                    !.reads = rest])
               /\ IF disposeListener
                  THEN /\ disposeListener' = FALSE
                       /\ dispose(Coalesce(destroyError, error), rest # <<>>)
                  ELSE UNCHANGED <<disposeListener, fd, closeCount, closePending,
                                   closedWithReadPending, cbError, destroyError>>
               /\ UNCHANGED destroyed
          ELSE IF error # "none"
               THEN /\ SetCursor(c0)
                    /\ destroyed' = TRUE
                    /\ dispose(error, rest # <<>>)
                    /\ UNCHANGED disposeListener
               ELSE /\ SetCursor(readDoneCursor(c0, req, n))
                    /\ UNCHANGED <<destroyed, disposeListener, fd, closeCount,
                                   closePending, closedWithReadPending, cbError,
                                   destroyError>>
    /\ UNCHANGED <<notStream, ranges, fileLen, constructed, openOk>>

\* The completion callback of fs.read: request i completes with `error`, whatever
\* the file holds, or with the n bytes the file can deliver.
ReadDone(i, error, n) ==
    /\ i \in 1..Len(reads)
    /\ error # "none" \/ n \in ReadCounts(reads[i])
    /\ op' = IF error # "none" THEN "readError" ELSE "readDone"
    /\ LET req == reads[i]
           rest == SubSeq(reads, 1, i - 1) \o SubSeq(reads, i + 1, Len(reads))
           c0 == [Cursor EXCEPT !.reading = FALSE, !.reads = rest]
       IN IF destroyed
          THEN /\ SetCursor(c0)
               /\ IF disposeListener
                  THEN /\ disposeListener' = FALSE
                       /\ dispose(Coalesce(destroyError, error), rest # <<>>)
                  ELSE UNCHANGED <<disposeListener, fd, closeCount, closePending,
                                   closedWithReadPending, cbError, destroyError>>
               /\ UNCHANGED destroyed
          ELSE IF error # "none"
               THEN /\ SetCursor(c0)
                    /\ destroyed' = TRUE
                    /\ dispose(error, rest # <<>>)
                    /\ UNCHANGED disposeListener
               ELSE /\ SetCursor(readDoneCursor(c0, req, n))
                    /\ UNCHANGED <<destroyed, disposeListener, fd, closeCount,
                                   closePending, closedWithReadPending, cbError,
                                   destroyError>>
    /\ UNCHANGED <<notStream, ranges, fileLen, constructed, openOk>>

\* destroy(error): Readable marks the stream destroyed and calls _destroy, after
\* construction if the open is still in progress.
Destroy(error) ==
    /\ ~destroyed
    /\ destroyed' = TRUE
    /\ op' = "destroy"
    /\ IF constructed
       THEN destroyImpl(error, reads # <<>>)
       ELSE /\ destroyError' = error
            /\ UNCHANGED <<fd, closeCount, closePending, closedWithReadPending,
                           cbError, disposeListener>>
    /\ UNCHANGED <<notStream, ranges, fileLen, constructed, openOk, reading, bytesRead,
                   currentRangeIndex, readState, reads, out, ended>>

\* The consumer aborts the stream, with or without an error.
Abort == \E error \in {"none", "abort"} : Destroy(error)

\* autoDestroy: Readable destroys the stream once it has ended.
AutoDestroy == ended /\ Destroy("none")

\* The callback of fs.close: _destroy's callback gets error ?? closeError.
CloseDone(closeError) ==
    /\ closePending
    /\ closePending' = FALSE
    /\ cbError' = Coalesce(destroyError, closeError)
    /\ op' = "closeDone"
    /\ UNCHANGED <<notStream, ranges, fileLen, fd, constructed, openOk, reading, bytesRead,
                   currentRangeIndex, readState, destroyed, disposeListener,
                   destroyError, reads, out, ended, closeCount, closedWithReadPending>>

\* A stream right after its constructor, for the RangeSet rs over a file of n bytes.
InitStream(rs, n) ==
    /\ ranges = rs
    /\ fileLen = n
    /\ fd = "null"
    /\ constructed = FALSE
    /\ openOk = FALSE
    /\ reading = FALSE
    /\ bytesRead = 0
    /\ currentRangeIndex = 0
    /\ readState = PREFIX
    /\ destroyed = FALSE
    /\ disposeListener = FALSE
    /\ destroyError = "none"
    /\ reads = <<>>
    /\ out = <<>>
    /\ ended = FALSE
    /\ closeCount = 0
    /\ closePending = FALSE
    /\ closedWithReadPending = FALSE
    /\ cbError = "unset"
    /\ op = "new"

\* No header check has run and no header is set.
InitHttpIdle ==
    /\ reqHeaders = NoHeaders
    /\ resHeaders = NoHeaders
    /\ precondition = "unset"
    /\ rangeFresh = "unset"

\* No request is being answered.
InitRespondIdle ==
    /\ method = "GET"
    /\ rawPath = <<"/">>
    /\ fsKind = "missing"
    /\ ignored = FALSE
    /\ options = DefaultOptions
    /\ downstream = "none"
    /\ pc = "idle"
    /\ outcome = "pending"
    /\ path = [segs |-> <<>>, slash |-> FALSE]
    /\ resStatus = 404
    /\ resLength = -1
    /\ resType = ""
    /\ resBody = "unset"
    /\ calls = <<>>

Init ==
    /\ \E rs \in RangeSets, n \in FileLens : InitStream(rs, n)
    /\ InitHttpIdle
    /\ InitRespondIdle

Next ==
    \/ \E ok \in BOOLEAN : Construct(ok)
    \/ \E size \in Sizes : _read(size)
    \/ \E i \in 1..Len(reads), n \in 0..MaxSize : ReadDone(i, "none", n)
    \/ \E i \in 1..Len(reads) : ReadDone(i, "read", 0)
    \/ Abort
    \/ AutoDestroy
    \/ \E closeError \in {"none", "close"} : CloseDone(closeError)

Spec == Init /\ [][Next]_vars

\* fs.open and every fs.read that was issued call back in the end, and the
\* consumer goes on pulling from a stream that has not ended.
Progress ==
    \/ \E ok \in BOOLEAN : Construct(ok)
    \/ \E size \in Sizes : _read(size)
    \/ \E i \in 1..Len(reads), n \in 0..MaxSize : ReadDone(i, "none", n)
    \/ \E i \in 1..Len(reads) : ReadDone(i, "read", 0)

Fairness == WF_vars(Progress)

\* The stream with a consumer that never aborts it: it is destroyed only by
\* Readable, on an error or after its end.
NextFair ==
    \/ \E ok \in BOOLEAN : Construct(ok)
    \/ \E size \in Sizes : _read(size)
    \/ \E i \in 1..Len(reads), n \in 0..MaxSize : ReadDone(i, "none", n)
    \/ \E i \in 1..Len(reads) : ReadDone(i, "read", 0)
    \/ AutoDestroy
    \/ \E closeError \in {"none", "close"} : CloseDone(closeError)

\* A stream over ranges that all reach to the end of the file as stat saw it
\* (bytes=o-), the one of no byte at the end included, in the order of the file.
InitFair ==
    /\ Init
    /\ \A i \in 1..Len(ranges) : ranges[i].offset + ranges[i].length = FileSize
    /\ \A i \in 2..Len(ranges) : ranges[i - 1].offset <= ranges[i].offset

SpecFair == InitFair /\ [][NextFair]_vars /\ Fairness

\* The stream with a consumer that also pulls 0 bytes, as Readable does for a
\* highWaterMark of 0.
NextZeroPull ==
    \/ Next
    \/ _read(0)

SpecZeroPull == Init /\ [][NextZeroPull]_vars

\* ------------------------------------------------------------------ header checks

\* isPreconditionFailure is applied to the request and the response.
EvalPrecondition ==
    /\ precondition = "unset"
    /\ precondition' = IF isPreconditionFailure(reqHeaders, resHeaders)
                       THEN "failed" ELSE "passed"
    /\ UNCHANGED <<notHttp, reqHeaders, resHeaders, rangeFresh>>

\* isRangeFresh is applied to the request and the response.
EvalRangeFresh ==
    /\ rangeFresh = "unset"
    /\ rangeFresh' = IF isRangeFresh(reqHeaders, resHeaders) THEN "fresh" ELSE "stale"
    /\ UNCHANGED <<notHttp, reqHeaders, resHeaders, precondition>>

InitHttp ==
    /\ InitStream(<<>>, FileSize)
    /\ \E im \in IfMatchValues, ius \in IfUnmodifiedSinceValues, ir \in IfRangeValues :
         reqHeaders = Fields([n \in {"If-Match", "If-Unmodified-Since", "If-Range"} |->
                         CASE n = "If-Match" -> im
                           [] n = "If-Unmodified-Since" -> ius
                           [] OTHER -> ir])
    /\ \E etag \in ETagValues, lm \in LastModifiedValues :
         resHeaders = Fields([n \in {"ETag", "Last-Modified"} |->
                         IF n = "ETag" THEN etag ELSE lm])
    /\ precondition = "unset"
    /\ rangeFresh = "unset"
    /\ InitRespondIdle

NextHttp ==
    \/ EvalPrecondition
    \/ EvalRangeFresh

SpecHttp == InitHttp /\ [][NextHttp]_vars

\* ------------------------------------------------------------------ Service

\* response.set(name, value) and response.remove(name)
set(headers, name, value) == (name :> value) @@ headers

remove(headers, name) == [n \in DOMAIN headers \ {name} |-> headers[n]]

\* What stat reports of a served file: its size, and the validators made of
\* size and mtime by createETag(stats) and stats.mtime.toUTCString().
StatETag == WeakTag("g")

StatLastModified == DateA

\* A setupHeaders that generates ETag and Last-Modified whatever the response
\* already has.
setupHeadersGenerated(res, opts) ==
    LET h1 == opts.headers @@ res
        h2 == set(h1, "Accept-Ranges",
                  IF opts.acceptRanges THEN <<"bytes">> ELSE <<"none">>)
        h3 == IF ~opts.etag THEN remove(h2, "ETag") ELSE set(h2, "ETag", StatETag)
    IN IF ~opts.lastModified THEN remove(h3, "Last-Modified")
       ELSE set(h3, "Last-Modified", StatLastModified)

\* setupHeaders: the header fields of the response when it returns. The headers
\* option is set first, Accept-Ranges after it; ETag and Last-Modified are
\* generated unless the response already has one.
setupHeaders(res, opts) ==
    LET h1 == opts.headers @@ res
        h2 == set(h1, "Accept-Ranges",
                  IF opts.acceptRanges THEN <<"bytes">> ELSE <<"none">>)
        h3 == IF ~opts.etag THEN remove(h2, "ETag")
              ELSE IF get(h2, "ETag") = <<>> THEN set(h2, "ETag", StatETag)
                   ELSE h2
    IN IF ~opts.lastModified THEN remove(h3, "Last-Modified")
       ELSE IF get(h3, "Last-Modified") = <<>>
            THEN set(h3, "Last-Modified", StatLastModified)
            ELSE h3

\* The freshness check behind request.fresh, for a GET or HEAD request whose
\* response status is 2xx: If-None-Match is compared weakly, If-Modified-Since
\* by date.
fresh(req, res) ==
    LET modifiedSince == get(req, "If-Modified-Since")
        noneMatch == get(req, "If-None-Match")
        etag == get(res, "ETag")
        lastModified == get(res, "Last-Modified")
        matches == parseTokens(noneMatch)
    IN /\ modifiedSince # <<>> \/ noneMatch # <<>>
       /\ (noneMatch # <<>> /\ noneMatch # Star) =>
              /\ etag # <<>>
              /\ \E i \in 1..Len(matches) : isETagMatching(matches[i], etag)
       /\ modifiedSince # <<>> =>
              /\ lastModified # <<>>
              /\ ~isNaN(DateParse(lastModified))
              /\ ~isNaN(DateParse(modifiedSince))
              /\ DateParse(lastModified).t <= DateParse(modifiedSince).t

\* `bytes ${start}-${end}/${size}`
ContentRange(start, end, size) ==
    <<"bytes ", ToString(start), "-", ToString(end), "/", ToString(size)>>

\* generate(32): the boundary of a multipart body.
Boundary == "B"

\* Buffer.from(string): the bytes of a string. A literal piece of the multipart
\* framing is one symbol here and one byte there; a digit is its own character.
\* File bytes are 0 .. size - 1 (FileBytes), so no framing byte is a file byte.
ByteOf(ch) ==
    CASE ch = "\r\n" -> 13
      [] ch = "\r\n\r\n" -> 10
      [] ch = "--" -> 45
      [] ch = Boundary -> 66
      [] ch = "Content-Type: " -> 67
      [] ch = "Content-Range: " -> 82
      [] ch = "bytes " -> 98
      [] ch = "mime" -> 109
      [] ch = "-" -> 44
      [] ch = "/" -> 46
      [] OTHER -> 48 + DigitValue(ch)

BufferFrom(str) == [i \in 1..Len(str) |-> ByteOf(str[i])]

\* The multipart prefix of the entry at index (0-based) of the parsed ranges.
PartPrefix(index, r, type, size) ==
    (IF index > 0 THEN <<"\r\n">> ELSE <<>>)
    \o <<"--", Boundary, "\r\n", "Content-Type: ", type, "\r\n", "Content-Range: ">>
    \o ContentRange(r.start, r.end, size) \o <<"\r\n\r\n">>

\* `\r\n--${boundary}--\r\n`
PartSuffix == <<"\r\n", "--", Boundary, "--", "\r\n">>

RECURSIVE SumLen(_, _)

\* The length of the ranges of rs from the i-th on, padding included.
SumLen(rs, i) ==
    IF i > Len(rs) THEN 0
    ELSE rs[i].length + Len(rs[i].prefix.data) + Len(rs[i].suffix.data) + SumLen(rs, i + 1)

\* What parseRanges gives for the whole file: the RangeSet of one range, and
\* the length it sets on the response.
WholeFile(status, type, size) ==
    [code |-> 0, status |-> status, length |-> size, type |-> type,
     contentRange |-> <<>>,
     ranges |-> <<[offset |-> 0, length |-> size, prefix |-> Absent, suffix |-> Absent]>>]

\* A multipart RangeSet in which every entry has the closing suffix.
PartsEachClosed(rs, type, size) ==
    [i \in 1..Len(rs) |->
        [offset |-> rs[i].start,
         length |-> rs[i].end - rs[i].start + 1,
         prefix |-> Buf(BufferFrom(PartPrefix(i - 1, rs[i], type, size))),
         suffix |-> Buf(BufferFrom(PartSuffix))]]

\* The RangeSet of a multipart answer to the parsed ranges rs.
Parts(rs, type, size) ==
    [i \in 1..Len(rs) |->
        [offset |-> rs[i].start,
         length |-> rs[i].end - rs[i].start + 1,
         prefix |-> Buf(BufferFrom(PartPrefix(i - 1, rs[i], type, size))),
         suffix |-> IF i = Len(rs) THEN Buf(BufferFrom(PartSuffix)) ELSE Absent]]

\* A multipart answer whose length leaves the closing suffix out.
MultipartOpen(parts) ==
    [code |-> 0, status |-> 206,
     length |-> SumLen(parts, 1) - Len(parts[Len(parts)].suffix.data),
     type |-> "multipart/byteranges", contentRange |-> <<>>, ranges |-> parts]

\* Multiple ranges: 206, the multipart type and the length of all parts.
Multipart(parts) ==
    [code |-> 0, status |-> 206, length |-> SumLen(parts, 1),
     type |-> "multipart/byteranges", contentRange |-> <<>>, ranges |-> parts]

\* A single-range answer that keeps the status and sets no Content-Range.
SinglePartPlain(r, type, size) ==
    [code |-> 0, status |-> 200, length |-> r.end - r.start + 1, type |-> type,
     contentRange |-> <<>>,
     ranges |-> <<[offset |-> r.start, length |-> r.end - r.start + 1,
                   prefix |-> Absent, suffix |-> Absent]>>]

\* One range r: 206, its length and its Content-Range.
SinglePart(r, type, size) ==
    [code |-> 0, status |-> 206, length |-> r.end - r.start + 1, type |-> type,
     contentRange |-> ContentRange(r.start, r.end, size),
     ranges |-> <<[offset |-> r.start, length |-> r.end - r.start + 1,
                   prefix |-> Absent, suffix |-> Absent]>>]

\* parseRanges once the Range header is parsed.
Negotiate(parsed, status, type, size) ==
    IF parsed.code # 0
    THEN [WholeFile(status, type, size) EXCEPT !.code = parsed.code]
    ELSE IF parsed.type # <<"bytes">> THEN WholeFile(status, type, size)
         ELSE IF Len(parsed.ranges) > 1
              THEN Multipart(Parts(parsed.ranges, type, size))
              ELSE SinglePart(parsed.ranges[1], type, size)

\* A negotiation that honours every Range header, whatever Accept-Ranges and
\* If-Range say.
parseRangesAlways(req, res, status, type, size) ==
    IF get(req, "Range") # <<>>
    THEN Negotiate(parseRange(size, get(req, "Range")), status, type, size)
    ELSE WholeFile(status, type, size)

\* A negotiation that looks for an Accept-Ranges field, whatever its value.
parseRangesAnyUnit(req, res, status, type, size) ==
    IF /\ get(res, "Accept-Ranges") # <<>>
       /\ get(req, "Range") # <<>>
       /\ isRangeFresh(req, res)
    THEN Negotiate(parseRange(size, get(req, "Range")), status, type, size)
    ELSE WholeFile(status, type, size)

\* parseRanges(context, stats): code -1 or -2, or code 0 with the RangeSet and
\* what it sets on the response: status, length, type and Content-Range.
parseRanges(req, res, status, type, size) ==
    IF /\ get(res, "Accept-Ranges") = <<"bytes">>
       /\ get(req, "Range") # <<>>
       /\ isRangeFresh(req, res)
    THEN Negotiate(parseRange(size, get(req, "Range")), status, type, size)
    ELSE WholeFile(status, type, size)

\* respond() leaves with `result`: it returned false ("notHandled"), true
\* ("handled") or threw the status named.
Leave(result) ==
    /\ outcome' = result
    /\ pc' = "done"

\* respond(context) up to its first await: the method, the decoded pathname,
\* the file path and the root check.
RespondStart ==
    /\ pc = "start"
    /\ LET pathname == decodeURI(rawPath)
           p == unixify(join(Root, pathname.value))
       IN IF method # "GET" /\ method # "HEAD"
          THEN Leave("notHandled") /\ calls' = Append(calls, "respond") /\ UNCHANGED path
          ELSE IF ~pathname.ok \/ (\E i \in 1..Len(pathname.value) : pathname.value[i] = "NUL")
               THEN Leave("400") /\ calls' = Append(calls, "respond") /\ UNCHANGED path
               ELSE /\ path' = p
                    /\ IF isOutRoot(p, Root)
                       THEN Leave("notHandled") /\ calls' = Append(calls, "respond")
                       ELSE /\ calls' = calls \o <<"respond", "ignore">>
                            /\ pc' = "ignore"
                            /\ UNCHANGED outcome
    /\ UNCHANGED <<streamVars, httpVars, method, rawPath, fsKind, ignored, options, downstream,
                   resStatus, resLength, resType, resBody>>

\* options.ignore has answered: an ignored path is not handled, else stat is called.
RespondIgnore ==
    /\ pc = "ignore"
    /\ IF ignored
       THEN Leave("notHandled") /\ UNCHANGED calls
       ELSE /\ calls' = Append(calls, "stat")
            /\ pc' = "stat"
            /\ UNCHANGED outcome
    /\ UNCHANGED <<streamVars, httpVars, method, rawPath, fsKind, ignored, options, downstream, path,
                   resStatus, resLength, resType, resBody>>

\* A respond() that sets the header fields of the file before it looks at what
\* stat answered.
RespondStatHeadersFirst ==
    /\ pc = "stat"
    /\ IF fsKind # "file" \/ hasTrailingSlash(path)
       THEN Leave("notHandled") /\ resHeaders' = setupHeaders(resHeaders, options)
       ELSE pc' = "headers" /\ UNCHANGED <<outcome, resHeaders>>
    /\ UNCHANGED <<streamVars, reqHeaders, precondition, rangeFresh, method, rawPath, fsKind,
                   ignored, options, downstream, path, resStatus, resLength, resType, resBody,
                   calls>>

\* stat has answered: no file, a directory or a trailing slash are not handled,
\* else setupHeaders is entered.
RespondStat ==
    /\ pc = "stat"
    /\ IF fsKind # "file" \/ hasTrailingSlash(path)
       THEN Leave("notHandled")
       ELSE pc' = "headers" /\ UNCHANGED outcome
    /\ UNCHANGED <<streamVars, httpVars, method, rawPath, fsKind, ignored, options, downstream, path,
                   resStatus, resLength, resType, resBody, calls>>

\* The response leaves respond() with the header fields res, status 200 and
\* the type of the file, but for what the step sets itself.
Responded(res, result) ==
    /\ Leave(result)
    /\ resHeaders' = res
    /\ resType' = "mime"

\* The end of a respond() that builds the ReadStream before it looks at what
\* parseRanges returned.
AttachFirst(res, parsed) ==
    /\ Responded(IF parsed.code = -1
                 THEN set(res, "Content-Range", <<"bytes ", "*", "/", ToString(StatSize)>>)
                 ELSE IF parsed.code = 0 /\ parsed.contentRange # <<>>
                      THEN set(res, "Content-Range", parsed.contentRange)
                      ELSE res,
                 IF parsed.code = -1 THEN "416"
                 ELSE IF parsed.code = -2 THEN "400" ELSE "handled")
    /\ resStatus' = IF parsed.code = 0 THEN parsed.status ELSE 200
    /\ resLength' = IF parsed.code = 0 THEN parsed.length ELSE resLength
    /\ resBody' = "stream"
    /\ ranges' = IF parsed.code = 0 THEN parsed.ranges ELSE <<>>
    /\ calls' = calls \o <<"parseRanges", "stream">>

\* The end of respond(), parseRanges having been called: -1 and -2 are thrown as
\* 416 and 400, else a ReadStream over the RangeSet becomes the body.
Attach(res, parsed) ==
    IF parsed.code = -1
    THEN /\ Responded(set(res, "Content-Range", <<"bytes ", "*", "/", ToString(StatSize)>>),
                      "416")
         /\ resStatus' = 200
         /\ calls' = Append(calls, "parseRanges")
         /\ UNCHANGED <<resLength, resBody, ranges>>
    ELSE IF parsed.code = -2
         THEN /\ Responded(res, "400")
              /\ resStatus' = 200
              /\ calls' = Append(calls, "parseRanges")
              /\ UNCHANGED <<resLength, resBody, ranges>>
         ELSE /\ Leave("handled")
              /\ resHeaders' = IF parsed.contentRange = <<>> THEN res
                               ELSE set(res, "Content-Range", parsed.contentRange)
              /\ resStatus' = parsed.status
              /\ resType' = parsed.type
              /\ resLength' = parsed.length
              /\ resBody' = "stream"
              /\ ranges' = parsed.ranges
              /\ calls' = calls \o <<"parseRanges", "stream">>

\* respond() with the freshness of the request looked at before its
\* precondition.
ServeFreshFirst(res) ==
    IF isConditionalGET(reqHeaders) /\ fresh(reqHeaders, res)
    THEN /\ Responded(res, "handled")
         /\ resStatus' = 304
         /\ resBody' = "null"
         /\ UNCHANGED <<resLength, calls, ranges>>
    ELSE IF isConditionalGET(reqHeaders) /\ isPreconditionFailure(reqHeaders, res)
         THEN /\ Responded(res, "412")
              /\ resStatus' = 200
              /\ UNCHANGED <<resLength, resBody, calls, ranges>>
         ELSE IF method = "HEAD"
              THEN /\ Responded(res, "handled")
                   /\ resStatus' = 200
                   /\ resLength' = StatSize
                   /\ resBody' = "null"
                   /\ UNCHANGED <<calls, ranges>>
              ELSE Attach(res, parseRanges(reqHeaders, res, 200, "mime", StatSize))

\* respond() without the answer to HEAD: the ranges are negotiated for every
\* method.
ServeHeadAsGet(res) ==
    IF isConditionalGET(reqHeaders) /\ isPreconditionFailure(reqHeaders, res)
    THEN /\ Responded(res, "412")
         /\ resStatus' = 200
         /\ UNCHANGED <<resLength, resBody, calls, ranges>>
    ELSE IF isConditionalGET(reqHeaders) /\ fresh(reqHeaders, res)
         THEN /\ Responded(res, "handled")
              /\ resStatus' = 304
              /\ resBody' = "null"
              /\ UNCHANGED <<resLength, calls, ranges>>
         ELSE Attach(res, parseRanges(reqHeaders, res, 200, "mime", StatSize))

\* respond() with HEAD answered before request.fresh is looked at.
ServeHeadFirst(res) ==
    IF isConditionalGET(reqHeaders) /\ isPreconditionFailure(reqHeaders, res)
    THEN /\ Responded(res, "412")
         /\ resStatus' = 200
         /\ UNCHANGED <<resLength, resBody, calls, ranges>>
    ELSE IF method = "HEAD"
         THEN /\ Responded(res, "handled")
              /\ resStatus' = 200
              /\ resLength' = StatSize
              /\ resBody' = "null"
              /\ UNCHANGED <<calls, ranges>>
         ELSE IF isConditionalGET(reqHeaders) /\ fresh(reqHeaders, res)
              THEN /\ Responded(res, "handled")
                   /\ resStatus' = 304
                   /\ resBody' = "null"
                   /\ UNCHANGED <<resLength, calls, ranges>>
              ELSE Attach(res, parseRanges(reqHeaders, res, 200, "mime", StatSize))

\* respond() after setupHeaders has set the header fields res: the conditional
\* check, the HEAD answer, then the range negotiation.
Serve(res) ==
    IF isConditionalGET(reqHeaders) /\ isPreconditionFailure(reqHeaders, res)
    THEN /\ Responded(res, "412")
         /\ resStatus' = 200
         /\ UNCHANGED <<resLength, resBody, calls, ranges>>
    ELSE IF isConditionalGET(reqHeaders) /\ fresh(reqHeaders, res)
         THEN /\ Responded(res, "handled")
              /\ resStatus' = 304
              /\ resBody' = "null"
              /\ UNCHANGED <<resLength, calls, ranges>>
         ELSE IF method = "HEAD"
              THEN /\ Responded(res, "handled")
                   /\ resStatus' = 200
                   /\ resLength' = StatSize
                   /\ resBody' = "null"
                   /\ UNCHANGED <<calls, ranges>>
              ELSE Attach(res, parseRanges(reqHeaders, res, 200, "mime", StatSize))

\* setupHeaders has returned: the rest of respond().
RespondServe ==
    /\ pc = "headers"
    /\ Serve(setupHeaders(resHeaders, options))
    /\ UNCHANGED <<fileLen, fd, constructed, openOk, reading, bytesRead,
                   currentRangeIndex, readState, destroyed, disposeListener,
                   destroyError, reads, out, ended, closeCount, closePending,
                   closedWithReadPending, cbError, op>>
    /\ UNCHANGED <<reqHeaders, precondition, rangeFresh, method, rawPath, fsKind,
                   ignored, options, downstream, path>>

\* ------------------------------------------------------------------ requests

\* The segments a request path is made of, percent-encoded: a name, dot
\* segments plain and escaped, a name that ends with two dots, the last name of
\* the root, escaped separators, a NUL byte, an escape cut short, and the empty
\* segment of a doubled or trailing slash.
RawSegments ==
    {<<"a">>, <<".", ".">>, <<"%2e", "%2e", "%2f", ".", ".">>, <<"a", ".", ".">>,
     <<"w">>, <<".", ".", "%5c", ".", ".">>, <<"a", "%00">>, <<"%">>, <<>>}

RECURSIVE PathOf(_)

\* The request path of the segments segs: a slash before each.
PathOf(segs) ==
    IF segs = <<>> THEN <<>> ELSE <<"/">> \o Head(segs) \o PathOf(Tail(segs))

RawPaths == UNION {{PathOf(segs) : segs \in [1..n -> RawSegments]} : n \in 1..MaxSegments}

\* The header fields of the requests respond() is given: none, two ranges, a
\* range past the file, an If-Match that fails and a fresh If-None-Match.
RespondRequests ==
    {NoHeaders,
     "Range" :> <<"bytes", "=", "0", "-", "0", ",", "2", "-">>,
     "Range" :> <<"bytes", "=", "9", "-">>,
     "If-Match" :> Quoted("x"),
     "If-None-Match" :> StatETag}

\* The middleware of server(root, options) is given a request: without defer
\* it calls respond(), with defer it calls next() and awaits it first. The
\* longest paths come with no header field, the others with every request of
\* RespondRequests.
InitRespond ==
    /\ InitStream(<<>>, StatSize)
    /\ reqHeaders \in RespondRequests
    /\ resHeaders = NoHeaders
    /\ precondition = "unset"
    /\ rangeFresh = "unset"
    /\ method \in {"GET", "HEAD", "POST"}
    /\ rawPath \in RawPaths
    /\ Cardinality({i \in 1..Len(rawPath) : rawPath[i] = "/"}) = MaxSegments =>
          reqHeaders = NoHeaders
    /\ fsKind \in {"file", "dir", "missing"}
    /\ ignored \in BOOLEAN
    /\ options \in {DefaultOptions, [DefaultOptions EXCEPT !.defer = TRUE]}
    /\ downstream = "none"
    /\ pc = IF options.defer THEN "middleware" ELSE "start"
    /\ outcome = "pending"
    /\ path = [segs |-> <<>>, slash |-> FALSE]
    /\ resStatus = 404
    /\ resLength = -1
    /\ resType = ""
    /\ resBody = "unset"
    /\ calls = <<>>

NextRespond ==
    \/ RespondStart
    \/ RespondIgnore
    \/ RespondStat
    \/ RespondServe

\* A deferred middleware that calls respond() at once, without next().
DeferredRespondFirst ==
    /\ pc = "middleware"
    /\ options.defer
    /\ pc' = "start"
    /\ UNCHANGED <<streamVars, httpVars, method, rawPath, fsKind, ignored, options, downstream,
                   outcome, path, resStatus, resLength, resType, resBody, calls>>

\* The response of a middleware after this one: a status, a header, a body.
DownstreamHeaders == "Cache-Control" :> <<"n", "o">>

\* What next() can do in the deferred middleware: complete with the response
\* untouched, complete with a response of its own, or reject.
DownstreamAnswers == {"none", "responded", "failed"}

\* The deferred middleware: next() is called and awaited. The middleware after
\* this one may respond meanwhile. When next() completes respond() is called;
\* when it rejects the middleware rejects with it.
DeferredNext ==
    /\ pc = "middleware"
    /\ options.defer
    /\ calls' = Append(calls, "next")
    /\ \E answer \in DownstreamAnswers :
         /\ pc' = IF answer = "failed" THEN "failed" ELSE "start"
         /\ downstream' = IF answer = "responded" THEN "responded" ELSE "none"
         /\ IF answer = "responded"
            THEN /\ resStatus' = 200
                 /\ resHeaders' = DownstreamHeaders
                 /\ resType' = "text"
                 /\ resLength' = 1
                 /\ resBody' = "downstream"
            ELSE UNCHANGED <<resHeaders, resStatus, resLength, resType, resBody>>
    /\ UNCHANGED <<streamVars, reqHeaders, precondition, rangeFresh, method, rawPath, fsKind,
                   ignored, options, outcome, path>>

\* A middleware without defer that calls next() whatever respond() returned.
FallThroughAlways ==
    /\ pc = "done"
    /\ ~options.defer
    /\ outcome \in {"notHandled", "handled"}
    /\ calls' = Append(calls, "next")
    /\ pc' = "returned"
    /\ UNCHANGED <<streamVars, httpVars, method, rawPath, fsKind, ignored, options, downstream,
                   outcome, path, resStatus, resLength, resType, resBody>>

\* The middleware without defer: respond() has returned false, next() is called
\* and the middleware returns.
FallThrough ==
    /\ pc = "done"
    /\ ~options.defer
    /\ outcome = "notHandled"
    /\ calls' = Append(calls, "next")
    /\ pc' = "returned"
    /\ UNCHANGED <<streamVars, httpVars, method, rawPath, fsKind, ignored, options, downstream,
                   outcome, path, resStatus, resLength, resType, resBody>>

NextMiddleware ==
    \/ NextRespond
    \/ DeferredNext
    \/ FallThrough

SpecRespond == InitRespond /\ [][NextMiddleware]_vars

\* ------------------------------------------------------------------ range requests

\* The file positions the specs of a Range header name: the first two and the
\* last two.
Positions == {0, 1, StatSize - 2, StatSize - 1}

\* first-last specs inside the file, a reversed one, one past the file and one
\* without digits.
ClosedSpecs ==
    UNION {{<<ToString(f), "-", ToString(l)>> : l \in {p \in Positions : f <= p}} :
             f \in Positions}
    \cup {<<"1", "-", "0">>, <<"9", "-", "9">>, <<"a">>}

\* The byte-range-specs of a Range header: first-last, first-, -suffix over the
\* positions of the file, and specs past the file, without digits, after a space.
RangeSpecs ==
    ClosedSpecs
    \cup {<<ToString(f), "-">> : f \in Positions}
    \cup {<<"-", ToString(n)>> : n \in {0, 1, StatSize}}
    \cup {<<"9", "-">>, <<"-", "9">>, <<"-">>, <<" ", "0", "-", "0">>}

\* Three specs: apart in order and out of order, overlapping into one range,
\* and two of them adjacent.
TripleSpecs ==
    LET z == ToString(StatSize - 1)
    IN {<<"0", "-", "0", ",", "2", "-", "2", ",", z, "-", z>>,
        <<z, "-", z, ",", "0", "-", "0", ",", "2", "-", "2">>,
        <<"0", "-", "1", ",", "2", "-", z, ",", "1", "-", "2">>,
        <<"0", "-", "0", ",", z, "-", z, ",", "1", "-", "1">>}

\* Range header values: one to three specs after bytes=, and values with
\* another unit, with no unit and with no "=".
RangeValues ==
    {<<>>}
    \cup {<<"bytes", "=">> \o a : a \in RangeSpecs \cup TripleSpecs}
    \cup {<<"bytes", "=">> \o a \o <<",">> \o b : a \in RangeSpecs, b \in ClosedSpecs}
    \cup {<<"items", "=", "0", "-", "0">>, <<"=", "0", "-", "0">>, <<"bytes">>,
          <<"bytes", " ", "0", "-", "0">>, <<"BYTES", "=", "0", "-", "0">>}

\* If-Range values: absent, the date and the tag of the file, another date.
NegotiateIfRanges == {<<>>, StatLastModified, DateB, StatETag}

\* Conditional headers of the request: none, an If-Match that fails, one that
\* passes while the response has an ETag, a fresh If-None-Match and
\* If-Modified-Since.
NegotiateConditions ==
    {NoHeaders,
     "If-Match" :> Quoted("x"),
     "If-Match" :> Star,
     "If-None-Match" :> StatETag,
     "If-Modified-Since" :> StatLastModified,
     ("If-Match" :> Quoted("x")) @@ ("If-None-Match" :> StatETag),
     "If-Unmodified-Since" :> DateB}

\* The options of the Service: each of acceptRanges, etag and lastModified
\* false or not.
NegotiateOptions ==
    {[acceptRanges |-> a, etag |-> e, lastModified |-> l, headers |-> NoHeaders,
      defer |-> FALSE] :
        a \in BOOLEAN, e \in BOOLEAN, l \in BOOLEAN}

\* A request for the file /a under Root.
FilePath == <<"/", "a">>

\* A Service over Root is given a GET or HEAD request for an existing file.
InitNegotiate ==
    /\ InitStream(<<>>, StatSize)
    /\ \E range \in RangeValues, ifRange \in NegotiateIfRanges,
          cond \in NegotiateConditions :
         reqHeaders = cond @@ Fields([n \in {"Range", "If-Range"} |->
                                        IF n = "Range" THEN range ELSE ifRange])
    /\ resHeaders = NoHeaders
    /\ precondition = "unset"
    /\ rangeFresh = "unset"
    /\ method \in {"GET", "HEAD"}
    /\ rawPath = FilePath
    /\ fsKind = "file"
    /\ ignored = FALSE
    /\ options \in NegotiateOptions
    /\ downstream = "none"
    /\ pc = "start"
    /\ outcome = "pending"
    /\ path = [segs |-> <<>>, slash |-> FALSE]
    /\ resStatus = 404
    /\ resLength = -1
    /\ resType = ""
    /\ resBody = "unset"
    /\ calls = <<>>

SpecNegotiate == InitNegotiate /\ [][NextRespond]_vars

\* ------------------------------------------------------------------ header options

\* What the headers option supplies, as an object or as the return value of a
\* function: nothing, validators of its own, an Accept-Ranges of its own.
SuppliedHeaders ==
    {NoHeaders,
     "ETag" :> Quoted("x"),
     "Last-Modified" :> DateB,
     ("ETag" :> Quoted("x")) @@ ("Last-Modified" :> DateB),
     "Accept-Ranges" :> <<"none">>,
     "Accept-Ranges" :> <<"bytes">>}

\* Conditional headers that tell the supplied validators from the generated.
HeaderConditions ==
    {NoHeaders,
     "If-Match" :> Quoted("x"),
     "If-Match" :> StatETag,
     "If-None-Match" :> Quoted("x"),
     "If-None-Match" :> StatETag,
     "If-Unmodified-Since" :> DateA,
     "If-Modified-Since" :> DateA}

\* A Service with a headers option, each of acceptRanges, etag and lastModified
\* false or not, is given a GET or HEAD request for an existing file. Range is
\* absent, satisfiable or not; If-Range is absent or a supplied or generated
\* tag or date.
InitHeaders ==
    /\ InitStream(<<>>, StatSize)
    /\ \E range \in {<<>>, <<"bytes", "=", "0", "-", "0">>, <<"bytes", "=", "9", "-">>},
          ifRange \in {<<>>, Quoted("x"), StatETag, DateB, StatLastModified},
          cond \in HeaderConditions :
         reqHeaders = cond @@ Fields([n \in {"Range", "If-Range"} |->
                                        IF n = "Range" THEN range ELSE ifRange])
    /\ resHeaders = NoHeaders
    /\ precondition = "unset"
    /\ rangeFresh = "unset"
    /\ method \in {"GET", "HEAD"}
    /\ rawPath = FilePath
    /\ fsKind = "file"
    /\ ignored = FALSE
    /\ options \in {[acceptRanges |-> a, etag |-> e, lastModified |-> l, headers |-> h,
                      defer |-> FALSE] :
                        a \in BOOLEAN, e \in BOOLEAN, l \in BOOLEAN, h \in SuppliedHeaders}
    /\ downstream = "none"
    /\ pc = "start"
    /\ outcome = "pending"
    /\ path = [segs |-> <<>>, slash |-> FALSE]
    /\ resStatus = 404
    /\ resLength = -1
    /\ resType = ""
    /\ resBody = "unset"
    /\ calls = <<>>

SpecHeaders == InitHeaders /\ [][NextRespond]_vars

\* ------------------------------------------------------------------ served streams

\* Range headers of the requests whose body is streamed: none, one range, two
\* and three ranges in and out of order, ranges that combine, none satisfiable.
ServeRanges ==
    {<<>>, <<"bytes", "=", "1", "-">>, <<"bytes", "=", "-", "1">>,
     <<"bytes", "=", "0", "-", "0", ",", "2", "-", "2">>,
     <<"bytes", "=", "0", "-", "1", ",", "1", "-", "2">>,
     <<"bytes", "=", "9", "-">>}
    \cup {<<"bytes", "=">> \o a : a \in TripleSpecs}

\* A Service over Root is given a GET request for an existing file, which
\* keeps its size or loses its last byte while it is streamed.
InitServe ==
    /\ \E n \in {StatSize, StatSize - 1} : InitStream(<<>>, n)
    /\ \E range \in ServeRanges : reqHeaders = Fields([n \in {"Range"} |-> range])
    /\ resHeaders = NoHeaders
    /\ precondition = "unset"
    /\ rangeFresh = "unset"
    /\ method = "GET"
    /\ rawPath = FilePath
    /\ fsKind = "file"
    /\ ignored = FALSE
    /\ options = DefaultOptions
    /\ downstream = "none"
    /\ pc = "start"
    /\ outcome = "pending"
    /\ path = [segs |-> <<>>, slash |-> FALSE]
    /\ resStatus = 404
    /\ resLength = -1
    /\ resType = ""
    /\ resBody = "unset"
    /\ calls = <<>>

\* respond() runs, then the stream it gave the response as body is consumed.
NextServe ==
    \/ NextRespond
    \/ resBody = "stream" /\ Next

SpecServe == InitServe /\ [][NextServe]_vars

\* The middleware is given a request with a path of one segment.
InitMiddlewareServe ==
    /\ InitRespond
    /\ Cardinality({i \in 1..Len(rawPath) : rawPath[i] = "/"}) = 1

\* The middleware runs, then the stream respond() gave the response as body, if
\* it gave one, is consumed.
NextMiddlewareServe ==
    \/ NextMiddleware
    \/ resBody = "stream" /\ Next

SpecMiddlewareServe == InitMiddlewareServe /\ [][NextMiddlewareServe]_vars

\* ------------------------------------------------------------------ claims: ReadStream

\* The bytes a range stands for: its prefix, the file bytes [offset, offset+length),
\* its suffix.
RangeBytes(range) ==
    (IF range.prefix.present THEN range.prefix.data ELSE <<>>)
    \o [j \in 1..range.length |-> range.offset + j - 1]
    \o (IF range.suffix.present THEN range.suffix.data ELSE <<>>)

RECURSIVE Concat(_, _)

\* The concatenation of the ranges rs[i..], in list order.
Concat(rs, i) == IF i > Len(rs) THEN <<>> ELSE RangeBytes(rs[i]) \o Concat(rs, i + 1)

\* C1: when the stream signals end-of-stream and the file is as stat saw it, the
\* bytes pushed are exactly the concatenation, in list order, of every range's
\* prefix, body bytes and suffix.
C1_EmittedIsConcatenation ==
    (ended /\ fileLen = FileSize) => out = Concat(ranges, 1)

\* A two-range multipart set with a body read in more than one chunk has ended.
C1_Witness ==
    /\ ended /\ fileLen = FileSize /\ Len(ranges) = 2
    /\ ranges[1].length = FileSize /\ ranges[1].prefix.data # <<>>
    /\ ranges[2].suffix.data # <<>> /\ ranges[2].length > 0
    /\ Len(out) = 2 * PadLen + PadLen + FileSize + ranges[2].length

\* C2: fs.close is never invoked while a read is outstanding; a destroy during an
\* outstanding read invokes no close, the read's completion then does; a destroy
\* with no read outstanding and an open descriptor invokes close in that step.
C2_CloseWaitsForRead ==
    /\ [](~closedWithReadPending)
    /\ [][(op' = "destroy" /\ reads # <<>>) =>
            (closeCount' = closeCount /\ fd' = fd /\ disposeListener')]_vars
    /\ [][(op' \in {"readDone", "readError"} /\ disposeListener) =>
            (closeCount' = closeCount + 1 /\ reads' = <<>>)]_vars
    /\ [][(op' = "destroy" /\ reads = <<>> /\ fd # "null") =>
            (closeCount' = closeCount + 1 /\ fd' = "null")]_vars

\* The stream was destroyed during an outstanding read and its close is deferred.
C2_Witness ==
    destroyed /\ disposeListener /\ reads # <<>> /\ fd = "fd" /\ closeCount = 0

\* C3: at most one fs.read is outstanding; a pull that arrives during an
\* outstanding read issues no read, pushes nothing and leaves the cursor; while a
\* read is outstanding only its completion pushes bytes or moves the cursor.
C3_OneReadInFlight ==
    /\ [](Len(reads) <= 1 /\ (reading <=> reads # <<>>))
    /\ [][op' = "readBusy" =>
            UNCHANGED <<bytesRead, currentRangeIndex, readState, out, ended, reads>>]_vars
    /\ [][(reads # <<>> /\ <<bytesRead, currentRangeIndex, readState, out, ended>>'
                              # <<bytesRead, currentRangeIndex, readState, out, ended>>) =>
            op' \in {"readDone", "readError"}]_vars

\* A pull arrived while a read was outstanding.
C3_Witness == op = "readBusy" /\ Len(reads) = 1 /\ reading

\* The stream is over: constructed, destroyed and no read outstanding.
StreamOver == constructed /\ destroyed /\ reads = <<>>

\* C4: fs.close is invoked at most once, only on a descriptor whose open
\* succeeded, and exactly once by the time such a stream is over, however it
\* terminated.
C4_CloseExactlyOnce ==
    /\ closeCount <= 1
    /\ (closeCount = 1 => openOk)
    /\ (fd # "null" => (openOk /\ closeCount = 0))
    /\ ((StreamOver /\ openOk) => closeCount = 1)

\* A stream that failed with a read error is over and its descriptor was closed.
C4_Witness == StreamOver /\ openOk /\ destroyError = "read" /\ closeCount = 1

\* ------------------------------------------------------------------ claims: reads

\* A read completed with an error on a stream that was not destroyed.
ReadFailed == op' = "readError" /\ ~destroyed

\* The stream was destroyed with the error of a read.
FailedRead == destroyed /\ destroyError = "read"

\* C27: a read that completes with an error is fatal: in that step the stream
\* is destroyed with the error and the descriptor is closed, nothing is pushed
\* and no read is issued; afterwards no byte is pushed and no read is issued,
\* and the stream reports that error.
C27_ReadErrorFatal ==
    /\ [][ReadFailed =>
            /\ destroyed' /\ destroyError' = "read"
            /\ fd = "fd" /\ fd' = "null"
            /\ closeCount' = closeCount + 1
            /\ out' = out /\ ~ended'
            /\ reads' = <<>>]_vars
    /\ [][FailedRead =>
            /\ FailedRead'
            /\ out' = out /\ ended' = ended
            /\ Len(reads') <= Len(reads)
            /\ fd' = "null"
            /\ closeCount' = closeCount
            /\ UNCHANGED <<bytesRead, currentRangeIndex, readState>>]_vars
    /\ []((FailedRead /\ reads = <<>>) => (fd = "null" /\ closeCount = 1))
    /\ []((FailedRead /\ reads = <<>> /\ ~closePending) => cbError = "read")

\* A read has just failed after a body byte was pushed, with more of the range
\* to read: the descriptor is being closed.
C27_Witness ==
    /\ FailedRead /\ op = "readError"
    /\ closePending /\ fd = "null"
    /\ readState = RANGE /\ bytesRead = 1
    /\ Len(ranges) = 1 /\ ranges[1].length = 2 /\ ranges[1].offset = 0
    /\ fileLen = FileSize
    /\ out = <<0>>
    /\ closeCount = 1

\* The place of a phase in the order a range goes through them.
PhaseRank(state) == CASE state = PREFIX -> 0 [] state = RANGE -> 1 [] OTHER -> 2

\* The place of the cursor in the order of all phases of all ranges.
CursorRank(idx, state) == 3 * idx + PhaseRank(state)

\* C28: over every sequence of pulls and read completions currentRangeIndex
\* never decreases and grows by one at a time, only on the way out of a SUFFIX
\* phase into the PREFIX of the next range; within a range the phase goes
\* PREFIX, RANGE, SUFFIX; no earlier range or phase is entered again, and the
\* stream ends only past the last range.
C28_CursorMonotonic ==
    /\ [][/\ currentRangeIndex' \in {currentRangeIndex, currentRangeIndex + 1}
          /\ CursorRank(currentRangeIndex', readState') >=
                 CursorRank(currentRangeIndex, readState)
          /\ CursorRank(currentRangeIndex', readState') <=
                 CursorRank(currentRangeIndex, readState) + 3
          /\ (readState = PREFIX /\ readState' # PREFIX) =>
                 (readState' = RANGE /\ currentRangeIndex' = currentRangeIndex)
          /\ (readState = SUFFIX /\ readState' # SUFFIX) =>
                 currentRangeIndex' = currentRangeIndex + 1
          /\ (readState = RANGE /\ currentRangeIndex' = currentRangeIndex) =>
                 readState' \in {RANGE, SUFFIX}
          /\ (ended' /\ ~ended /\ fd' = "fd") =>
                 (currentRangeIndex' = Len(ranges) /\ readState' = PREFIX)]_vars
    /\ [](currentRangeIndex <= Len(ranges))
    /\ [](currentRangeIndex = Len(ranges) => readState = PREFIX)

\* The cursor has gone through the three phases of the first range and is in
\* the body of the second.
C28_Witness ==
    /\ Len(ranges) = 2
    /\ ranges[1].prefix.data # <<>> /\ ranges[1].suffix.data # <<>> /\ ranges[1].length > 0
    /\ ranges[2].prefix.data # <<>>
    /\ currentRangeIndex = 1 /\ readState = RANGE
    /\ Len(out) >= 2 * PadLen + ranges[1].length + PadLen

\* A read completes without error and with no byte: the file holds nothing at
\* its position, or the buffer has no room.
ZeroRead ==
    /\ op' = "readDone" /\ ~destroyed
    /\ reads # <<>> /\ Available(reads[1]) = 0

HasBytes(padding) == padding.present /\ padding.data # <<>>

\* The bytes of a padding the first pull of `size` bytes takes.
FirstChunk(padding, size) == SubSeq(padding.data, 1, Min(size, Len(padding.data)))

\* C29: a read that succeeds with 0 bytes exhausts the body of its range: the
\* counter restarts from 0, the phase is SUFFIX of the same range, and the same
\* step goes on: it pushes the suffix, or starts the next range (its prefix, or
\* a read at its offset), or ends the stream; the range is not read again and
\* the stream does not stall.
C29_ZeroByteRead ==
    [][ZeroRead =>
         LET r == reads[1].range
             size == reads[1].size
             suffix == ranges[r + 1].suffix
         IN /\ r = currentRangeIndex /\ readState = RANGE
            /\ \A i \in 1..Len(reads') : reads'[i].range # r
            /\ out' # out \/ ended' \/ reads' # <<>>
            /\ bytesRead' = Len(out') - Len(out)
            /\ IF HasBytes(suffix)
               THEN /\ readState' = SUFFIX /\ currentRangeIndex' = r
                    /\ out' = out \o FirstChunk(suffix, size)
                    /\ reads' = <<>> /\ ~ended'
               ELSE /\ currentRangeIndex' = r + 1
                    /\ IF r + 1 = Len(ranges)
                       THEN /\ ended' /\ readState' = PREFIX
                            /\ out' = out /\ reads' = <<>>
                       ELSE IF HasBytes(ranges[r + 2].prefix)
                            THEN /\ readState' = PREFIX
                                 /\ out' = out \o FirstChunk(ranges[r + 2].prefix, size)
                                 /\ reads' = <<>> /\ ~ended'
                            ELSE /\ readState' = RANGE
                                 /\ out' = out /\ ~ended'
                                 /\ Len(reads') = 1
                                 /\ reads'[1].range = r + 1
                                 /\ reads'[1].position = ranges[r + 2].offset]_vars

\* The file lost its last byte: the second read of a range of two bytes got
\* none, and the suffix of the range follows the one body byte.
C29_Witness ==
    /\ op = "readDone"
    /\ Len(ranges) = 1 /\ ranges[1].offset = 0 /\ ranges[1].length = FileSize
    /\ fileLen = FileSize - 1
    /\ HasBytes(ranges[1].prefix) /\ HasBytes(ranges[1].suffix)
    /\ readState = SUFFIX /\ bytesRead >= 1
    /\ out = PrefixBytes \o FileBytes(0, FileSize - 1) \o SubSeq(SuffixBytes, 1, bytesRead)

\* The current range, while there is one.
CurrentRange == ranges[currentRangeIndex + 1]

\* C30: every read is issued for the current range at position offset + (body
\* bytes already pushed for it), with length min(N, range.length - bytes
\* pushed): the length is never negative, the read ends at or before offset +
\* length, and the body bytes pushed for a range, which are the file bytes
\* from its offset on, never exceed range.length.
C30_ReadWindow ==
    /\ \A i \in 1..Len(reads) :
          LET q == reads[i]
          IN /\ q.range = currentRangeIndex /\ readState = RANGE
             /\ q.position = CurrentRange.offset + bytesRead
             /\ q.length = Min(q.size, CurrentRange.length - bytesRead)
             /\ q.length >= 0
             /\ q.position + q.length <= CurrentRange.offset + CurrentRange.length
    /\ (readState = RANGE /\ currentRangeIndex < Len(ranges)) =>
          /\ bytesRead <= CurrentRange.length
          /\ bytesRead <= Len(out)
          /\ SubSeq(out, Len(out) - bytesRead + 1, Len(out)) =
                 FileBytes(CurrentRange.offset, bytesRead)

\* The second read of the second range, a range of two bytes from offset 0: one
\* byte is pushed, and the read asks at position 1 for the one byte left though
\* the pull asked for two.
C30_Witness ==
    /\ Len(reads) = 1
    /\ reads[1].size = 2 /\ reads[1].length = 1 /\ reads[1].position = 1
    /\ Len(ranges) = 2 /\ currentRangeIndex = 1
    /\ CurrentRange.offset = 0 /\ CurrentRange.length = 2
    /\ bytesRead = 1

\* C31: a pull (N >= 1) that arrives while no read is outstanding and the
\* stream has not ended pushes at least one byte, or issues a read, or signals
\* the end of the stream before it returns: a phase whose padding is absent,
\* empty or fully pushed is passed through in the same call.
C31_PullMakesProgress ==
    [][op' = "read" =>
         /\ ~reading /\ ~ended /\ reads = <<>>
         /\ \/ Len(out') > Len(out) /\ SubSeq(out', 1, Len(out)) = out
            \/ Len(reads') = 1 /\ reading'
            \/ ended']_vars

\* A pull found the suffix of the first range fully pushed and no prefix on
\* the second: it went on to issue the read of the second range.
C31_Witness ==
    /\ op = "read"
    /\ Len(ranges) = 2 /\ currentRangeIndex = 1 /\ readState = RANGE
    /\ HasBytes(ranges[1].suffix) /\ ~ranges[2].prefix.present
    /\ ranges[1].length = 0
    /\ out = SuffixBytes
    /\ Len(reads) = 1 /\ reads[1].range = 1

\* The error a completion came with: the read error or none.
CompletionError == IF op' = "readError" THEN "read" ELSE "none"

\* C35: a read completion that arrives after the stream was destroyed pushes
\* nothing and leaves bytesRead, currentRangeIndex and readState as they were;
\* it clears this.reading and releases the close that _destroy deferred, which
\* gets the error of the read if destroy carried none.
C35_LateCompletion ==
    [][(op' \in {"readDone", "readError"} /\ destroyed) =>
         /\ out' = out /\ ended' = ended
         /\ bytesRead' = bytesRead
         /\ currentRangeIndex' = currentRangeIndex
         /\ readState' = readState
         /\ ~reading' /\ Len(reads') = Len(reads) - 1
         /\ destroyed' /\ fileLen' = fileLen /\ ranges' = ranges
         /\ IF disposeListener
            THEN /\ ~disposeListener'
                 /\ destroyError' = IF destroyError # "none" THEN destroyError
                                    ELSE CompletionError
                 /\ IF fd = "fd"
                    THEN /\ fd' = "null" /\ closeCount' = closeCount + 1 /\ closePending'
                         /\ cbError' = cbError
                    ELSE /\ fd' = fd /\ closeCount' = closeCount
                         /\ cbError' = destroyError'
            ELSE UNCHANGED <<disposeListener, fd, closeCount, closePending, cbError,
                             destroyError>>]_vars

\* A read completed without error on a stream that was destroyed without an
\* error while the read was in flight, and the close was invoked.
C35_Witness ==
    /\ op = "readDone"
    /\ destroyed /\ destroyError = "none"
    /\ ~reading /\ reads = <<>>
    /\ closeCount = 1 /\ fd = "null"
    /\ \E r \in 1..Len(ranges) : ranges[r].length > 0 /\ ranges[r].offset < fileLen
    /\ ~ended

\* C36: when fs.open fails the open error is the error of the construction,
\* this.fd stays null, no positioned read is ever issued, fs.close is never
\* invoked and no byte is pushed.
C36_OpenFailure ==
    (constructed /\ ~openOk) =>
        /\ cbError = "open" /\ destroyError = "open"
        /\ destroyed
        /\ fd = "null"
        /\ reads = <<>> /\ ~reading
        /\ closeCount = 0 /\ ~closePending
        /\ out = <<>> /\ ~ended

\* The open of a file with ranges to serve has failed.
C36_Witness ==
    /\ constructed /\ ~openOk
    /\ op = "construct"
    /\ cbError = "open"
    /\ ranges # <<>>

\* Nothing of the padding pad is left to emit after n of its bytes: it is
\* absent, empty or emitted to its end.
PaddingDone(pad, n) == ~pad.present \/ n >= Len(pad.data)

\* The cursor is at another phase after the step.
PhaseLeft ==
    CursorRank(currentRangeIndex', readState') # CursorRank(currentRangeIndex, readState)

\* C37: for every pull size N >= 0 the stream leaves the PREFIX or SUFFIX phase
\* only when that padding is absent, empty or emitted to its end, and leaves
\* the RANGE phase only when a read that asked for one byte or more returned
\* none or range.length bytes of the body have been emitted; a padding passed
\* on the way is absent or empty, and no byte of a padding or a body is left
\* out of a stream that ended over the file stat saw.
C37_PhaseLeftWhenDone ==
    /\ [][(PhaseLeft /\ currentRangeIndex < Len(ranges)) =>
             /\ readState = PREFIX =>
                   PaddingDone(ranges[currentRangeIndex + 1].prefix, bytesRead)
             /\ readState = SUFFIX =>
                   PaddingDone(ranges[currentRangeIndex + 1].suffix, bytesRead)
             /\ readState = RANGE =>
                   /\ op' = "readDone" /\ reads # <<>>
                   /\ \/ reads[1].length > 0
                      \/ bytesRead = ranges[currentRangeIndex + 1].length
                   /\ currentRangeIndex' = currentRangeIndex + 1 =>
                         PaddingDone(ranges[currentRangeIndex + 1].suffix, 0)
             /\ (readState' = RANGE /\ readState = SUFFIX) =>
                   PaddingDone(ranges[currentRangeIndex' + 1].prefix, 0)]_vars
    /\ []((ended /\ fileLen = FileSize) => out = Concat(ranges, 1))

OutsideRoot ==
    LET pathname == decodeURI(rawPath)
        joined == join(Root, pathname.value).segs
    IN /\ pathname.ok
       /\ ~(Len(joined) >= Len(Root) /\ SubSeq(joined, 1, Len(Root)) = Root)

\* The decoded request path holds a NUL byte.
HoldsNUL == \E i \in 1..Len(rawPath) : rawPath[i] = "%00"

\* No stat was called and no stream was opened on behalf of the request.
NothingTouched ==
    /\ \A i \in 1..Len(calls) : calls[i] \notin {"stat", "stream"}
    /\ resBody # "stream"
    /\ fd = "null" /\ reads = <<>>

\* C5 as stated: a request whose decoded path, joined onto the root and
\* normalized, lies outside the root is never served: respond() returns "not
\* handled" without throwing, and neither stat nor open nor read is issued.
C5_OutOfRootNotHandled ==
    OutsideRoot =>
        /\ NothingTouched
        /\ pc = "done" => outcome = "notHandled"

\* C5, amended: such a request is never served and neither stat nor open nor
\* read is issued for it; respond() returns "not handled" without throwing,
\* unless the method is GET or HEAD and the decoded path holds a NUL byte, for
\* which it throws 400.
C5_OutOfRootNeverServed ==
    OutsideRoot =>
        /\ NothingTouched
        /\ outcome # "handled"
        /\ pc = "done" =>
              outcome = IF method \in {"GET", "HEAD"} /\ HoldsNUL THEN "400"
                        ELSE "notHandled"

\* A GET of /../../a over an existing file has been answered "not handled".
C5_Witness ==
    /\ pc = "done"
    /\ OutsideRoot
    /\ method = "GET"
    /\ fsKind = "file"
    /\ ~ignored
    /\ rawPath = <<"/", ".", ".", "/", ".", ".", "/", "a">>
    /\ outcome = "notHandled"

\* The percent-decoding of the request path fails.
DecodeFails == \E i \in 1..Len(rawPath) : rawPath[i] = "%"

\* The response is as respond() found it: untouched, or as the middleware
\* after this one left it during a deferred next().
AsOnEntry ==
    IF downstream = "responded"
    THEN /\ resHeaders = DownstreamHeaders
         /\ resStatus = 200 /\ resLength = 1 /\ resType = "text" /\ resBody = "downstream"
    ELSE /\ resHeaders = NoHeaders
         /\ resStatus = 404 /\ resLength = -1 /\ resType = "" /\ resBody = "unset"

\* respond() has been called and has not gone past its first step.
Rejected ==
    /\ pc = "done"
    /\ outcome = "400"
    /\ NothingTouched
    /\ \A i \in 1..Len(calls) : calls[i] = "respond" \/ (options.defer /\ i = 1)
    /\ AsOnEntry

\* C17 as stated: a request path whose percent-decoding fails, or whose decoded
\* form holds a NUL byte, ends the request with 400: no stat, open or read is
\* issued, no response header is set and the next middleware is not invoked.
C17_BadPathRejected ==
    (DecodeFails \/ HoldsNUL) =>
        /\ NothingTouched
        /\ AsOnEntry
        /\ pc = "done" => Rejected

\* C17, amended: for a GET or HEAD request such a path makes respond() throw
\* 400 in its first step: no stat, open or read is issued, no response header
\* is set, and the middleware does not call next() after respond() (with defer
\* it has called next() before respond()). Another method is not handled.
C17_BadPathRejectedForGetHead ==
    (DecodeFails \/ HoldsNUL) =>
        /\ NothingTouched
        /\ AsOnEntry
        /\ (method \in {"GET", "HEAD"} /\ pc \notin {"middleware", "start", "failed"}) => Rejected
        /\ (method \notin {"GET", "HEAD"} /\ pc = "done") => outcome = "notHandled"

\* A GET whose path holds an escape cut short was rejected with 400.
C17_Witness ==
    /\ method = "GET"
    /\ DecodeFails /\ ~HoldsNUL
    /\ ~options.defer
    /\ fsKind = "file"
    /\ Rejected
    /\ calls = <<"respond">>

\* ------------------------------------------------------------------ claims: conditional requests

IfMatch == get(reqHeaders, "If-Match")

IfUnmodifiedSince == get(reqHeaders, "If-Unmodified-Since")

IfRange == get(reqHeaders, "If-Range")

ETag == get(resHeaders, "ETag")

LastModified == get(resHeaders, "Last-Modified")

\* An entity tag with the W/ prefix, and one without it.
IsWeakTag(tag) == Len(tag) >= 2 /\ tag[1] = "W" /\ tag[2] = "/"

IsStrongTag(tag) == tag # <<>> /\ tag[1] = "\""

\* C6: with If-Match: * the precondition fails exactly when the response has no
\* ETag, and with no ETag every If-Match value fails it.
C6_IfMatchStar ==
    precondition # "unset" =>
        /\ (IfMatch = Star => (precondition = "failed" <=> ETag = <<>>))
        /\ ((IfMatch # <<>> /\ ETag = <<>>) => precondition = "failed")

\* If-Match: * was checked against a weak current ETag and passed.
C6_Witness == precondition = "passed" /\ IfMatch = Star /\ ETag = WeakTag("x")

\* C7: If-Match compares strongly: against a weak current ETag every If-Match
\* value other than * fails the precondition, and a list of weak tags fails it
\* against a strong current ETag.
C7_IfMatchStrongComparison ==
    (precondition # "unset" /\ IfMatch # <<>> /\ IfMatch # Star /\ ETag # <<>>) =>
        /\ (IsWeakTag(ETag) => precondition = "failed")
        /\ ((IsStrongTag(ETag)
             /\ \A i \in 1..Len(parseTokens(IfMatch)) : IsWeakTag(parseTokens(IfMatch)[i]))
            => precondition = "failed")

\* C8: an If-Range that parses as a date makes the range fresh exactly when
\* Last-Modified parses and names the same instant.
C8_IfRangeDateExact ==
    (rangeFresh # "unset" /\ ~isNaN(DateParse(IfRange))) =>
        (rangeFresh = "fresh" <=>
            (/\ ~isNaN(DateParse(LastModified))
             /\ DateParse(LastModified).t = DateParse(IfRange).t))

\* An If-Range date later than Last-Modified was checked: the range is not fresh.
C8_Witness == rangeFresh = "stale" /\ IfRange = DateB /\ LastModified = DateA

\* C9: an If-Range that is not a date makes the range fresh exactly when it is a
\* strong tag identical to a strong current ETag.
C9_IfRangeStrongComparison ==
    (rangeFresh # "unset" /\ IfRange # <<>> /\ isNaN(DateParse(IfRange))) =>
        (rangeFresh = "fresh" <=> (IsStrongTag(IfRange) /\ IfRange = ETag))

\* The request with its If-Unmodified-Since replaced by `value`.
WithUnmodifiedSince(req, value) ==
    [name \in DOMAIN req \cup {"If-Unmodified-Since"} |->
        IF name = "If-Unmodified-Since" THEN value ELSE req[name]]

\* C10: with If-Match present the outcome is the same whatever
\* If-Unmodified-Since says; with If-Match absent and a valid If-Unmodified-Since
\* the precondition fails exactly when Last-Modified does not parse or is later;
\* with neither it passes.
C10_Precedence ==
    precondition # "unset" =>
        /\ (IfMatch # <<>> =>
              \A value \in IfUnmodifiedSinceValues :
                 (precondition = "failed") <=>
                    isPreconditionFailure(WithUnmodifiedSince(reqHeaders, value), resHeaders))
        /\ ((IfMatch = <<>> /\ ~isNaN(DateParse(IfUnmodifiedSince))) =>
              (precondition = "failed" <=>
                 (\/ isNaN(DateParse(LastModified))
                  \/ DateParse(LastModified).t > DateParse(IfUnmodifiedSince).t)))
        /\ ((IfMatch = <<>> /\ isNaN(DateParse(IfUnmodifiedSince))) =>
              precondition = "passed")

\* If-Match was satisfied while If-Unmodified-Since alone would have failed.
C10_Witness ==
    /\ precondition = "passed" /\ IfMatch = Quoted("x") /\ ETag = Quoted("x")
    /\ IfUnmodifiedSince = DateA /\ LastModified = DateB

\* ------------------------------------------------------------------ claims: range negotiation

\* respond() has returned or thrown after it called parseRanges.
Negotiated == pc = "done" /\ \E i \in 1..Len(calls) : calls[i] = "parseRanges"

Range == get(reqHeaders, "Range")

ContentRangeField == get(resHeaders, "Content-Range")

\* The RangeSet of the whole file: one range, no padding.
FullRangeSet ==
    <<[offset |-> 0, length |-> StatSize, prefix |-> Absent, suffix |-> Absent]>>

\* C11: a GET that reaches range negotiation with range support disabled, or
\* without a Range header, or with a range that is not fresh, gets the single
\* range {0, size} without padding, length size, status 200 and no
\* Content-Range; with range support enabled the response carries
\* Accept-Ranges: bytes.
C11_FullFileWhenNoRange ==
    Negotiated =>
        /\ (~options.acceptRanges \/ Range = <<>> \/ ~isRangeFresh(reqHeaders, resHeaders)) =>
              /\ outcome = "handled"
              /\ resBody = "stream"
              /\ ranges = FullRangeSet
              /\ resLength = StatSize
              /\ resStatus = 200
              /\ ContentRangeField = <<>>
        /\ options.acceptRanges => get(resHeaders, "Accept-Ranges") = <<"bytes">>

\* A GET with a satisfiable Range and a stale If-Range got the whole file.
C11_Witness ==
    /\ Negotiated
    /\ options.acceptRanges
    /\ Range = <<"bytes", "=", "0", "-", "0">>
    /\ IfRange = DateB
    /\ ranges = FullRangeSet
    /\ resLength = StatSize
    /\ resStatus = 200

\* The Range header is honoured: range support is on and the range is fresh.
Honoured ==
    /\ options.acceptRanges
    /\ Range # <<>>
    /\ isRangeFresh(reqHeaders, resHeaders)

\* The byte ranges the Range header parses to against the size of the file, <<>>
\* when it names none or another unit.
ByteRanges ==
    LET parsed == parseRange(StatSize, Range)
    IN IF parsed.code = 0 /\ parsed.type = <<"bytes">> THEN parsed.ranges ELSE <<>>

\* The response to the one byte range first-last.
IsSingleRangeResponse(first, last) ==
    /\ outcome = "handled"
    /\ resBody = "stream"
    /\ resStatus = 206
    /\ ContentRangeField =
          <<"bytes ", ToString(first), "-", ToString(last), "/", ToString(StatSize)>>
    /\ resLength = last - first + 1
    /\ ranges = <<[offset |-> first, length |-> last - first + 1,
                   prefix |-> Absent, suffix |-> Absent]>>
    /\ Concat(ranges, 1) = FileBytes(first, last - first + 1)

\* C12: a Range header that parses, after combining, to exactly one satisfiable
\* byte range start-end gets status 206, Content-Range bytes start-end/size,
\* length end-start+1 and the RangeSet of that one range without padding, whose
\* body is the file bytes start..end. 0-1, 1- and -1 name the ranges they spell.
C12_SingleRange ==
    (Negotiated /\ Honoured) =>
        /\ Len(ByteRanges) = 1 =>
              IsSingleRangeResponse(ByteRanges[1].start, ByteRanges[1].end)
        /\ Range = <<"bytes", "=", "0", "-", "1">> => IsSingleRangeResponse(0, 1)
        /\ Range = <<"bytes", "=", "1", "-">> => IsSingleRangeResponse(1, StatSize - 1)
        /\ Range = <<"bytes", "=", "-", "1">> =>
              IsSingleRangeResponse(StatSize - 1, StatSize - 1)

\* bytes=1- with a fresh If-Range tag was answered with the one range.
C12_Witness ==
    /\ Negotiated /\ Honoured
    /\ Range = <<"bytes", "=", "1", "-">>
    /\ IfRange = StatETag
    /\ IsSingleRangeResponse(1, StatSize - 1)

\* The ranges the specs of the Range header name one by one, before combining.
NamedRanges ==
    LET arr == SplitOn(SubSeq(Range, IndexOfEquals(Range) + 1, Len(Range)), {","}, <<>>)
    IN Satisfiable([i \in 1..Len(arr) |-> parseSpec(arr[i], StatSize)])

\* The file positions the ranges of the sequence rs cover, rs[i] being start..end.
Covered(rs) == UNION {rs[i].start..rs[i].end : i \in 1..Len(rs)}

\* The entries i and j of the RangeSet neither overlap nor touch.
Apart(i, j) ==
    \/ ranges[i].offset + ranges[i].length < ranges[j].offset
    \/ ranges[j].offset + ranges[j].length < ranges[i].offset

\* C15: overlapping or adjacent byte ranges of the Range header are merged
\* before the single / multipart decision: the ranges of the returned RangeSet
\* are pairwise disjoint and not adjacent and cover what the header names;
\* 0-1,1-2 (overlapping) and 0-0,1-1 (adjacent, in either order) give one
\* range and a single-range 206; combining a combined set gives the same set.
C15_RangesCombined ==
    (Negotiated /\ Honoured /\ ByteRanges # <<>>) =>
        /\ resBody = "stream"
        /\ Len(ranges) = Len(ByteRanges)
        /\ \A i, j \in 1..Len(ranges) : i # j => Apart(i, j)
        /\ Covered(ByteRanges) = Covered(NamedRanges)
        /\ UNION {ranges[i].offset..(ranges[i].offset + ranges[i].length - 1) :
                    i \in 1..Len(ranges)} = Covered(NamedRanges)
        /\ combineRanges(ByteRanges) = ByteRanges
        /\ Range = <<"bytes", "=", "0", "-", "1", ",", "1", "-", ToString(StatSize - 2)>> =>
              IsSingleRangeResponse(0, StatSize - 2)
        /\ Range = <<"bytes", "=", "0", "-", "0", ",", "1", "-", "1">> =>
              IsSingleRangeResponse(0, 1)
        /\ Range = <<"bytes", "=", "1", "-", "1", ",", "0", "-", "0">> =>
              IsSingleRangeResponse(0, 1)

\* Two overlapping ranges were answered as one.
C15_Witness ==
    /\ Negotiated /\ Honoured
    /\ Range = <<"bytes", "=", "0", "-", "1", ",", "1", "-", ToString(StatSize - 2)>>
    /\ Len(NamedRanges) = 2
    /\ IsSingleRangeResponse(0, StatSize - 2)

\* Well-formed specs that no file of the size at hand satisfies: a first
\* position past the file, a suffix of no byte.
UnsatisfiableSpecs == {<<"9", "-">>, <<"9", "-", "9">>, <<"-", "0">>}

\* The Range header lists byte-range-specs of which none is satisfiable.
Unsatisfiable ==
    \/ \E a \in UnsatisfiableSpecs : Range = <<"bytes", "=">> \o a
    \/ \E a, b \in UnsatisfiableSpecs : Range = <<"bytes", "=">> \o a \o <<",">> \o b

\* respond() threw 416 with Content-Range: bytes */size, the status not 206, no
\* stream attached and no descriptor opened.
IsUnsatisfiableResponse ==
    /\ outcome = "416"
    /\ ContentRangeField = <<"bytes ", "*", "/", ToString(StatSize)>>
    /\ resStatus # 206
    /\ resBody # "stream"
    /\ ranges = <<>>
    /\ fd = "null" /\ ~constructed

\* C16: a fresh Range header that is unsatisfiable against the size of the file
\* (9- on a file of StatSize bytes) makes negotiation return -1: respond sets
\* Content-Range: bytes */size and throws 416; the status is not left at 206,
\* no stream is attached and no descriptor is opened.
C16_Unsatisfiable ==
    (Negotiated /\ Honoured) =>
        /\ Unsatisfiable => IsUnsatisfiableResponse
        /\ parseRange(StatSize, Range).code = -1 => IsUnsatisfiableResponse

\* bytes=9- with a fresh If-Range date was answered 416.
C16_Witness ==
    /\ Negotiated /\ Honoured
    /\ Range = <<"bytes", "=", "9", "-">>
    /\ IfRange = StatLastModified
    /\ IsUnsatisfiableResponse

\* Range header values that are no byte-ranges-specifier: no "=", or no
\* byte-range-spec after it.
MalformedRanges ==
    {<<"bytes">>, <<"bytes", " ", "0", "-", "0">>, <<"bytes", "=", "a">>,
     <<"bytes", "=", "-">>}

\* C18: a fresh Range header that is syntactically malformed makes negotiation
\* return -2 and respond throw 400, with no Content-Range set, the status not
\* 206 and no stream attached.
C18_MalformedRange ==
    (Negotiated /\ Honoured /\ Range \in MalformedRanges) =>
        /\ outcome = "400"
        /\ ContentRangeField = <<>>
        /\ resStatus # 206
        /\ resBody # "stream"

\* ------------------------------------------------------------------ claims: middleware

\* How many times `name` was called on behalf of the request.
Count(name) == Cardinality({i \in 1..Len(calls) : calls[i] = name})

\* The middleware has nothing left to do: it has returned or rejected, after
\* respond() or after a next() that failed.
Finished ==
    \/ pc \in {"returned", "failed"}
    \/ pc = "done" /\ ~ENABLED FallThrough

\* The path decodes, holds no NUL byte, and respond() has a reason not to handle
\* it: outside the root, ignored, no file, a directory or a trailing slash.
NoMatch ==
    /\ ~DecodeFails /\ ~HoldsNUL
    /\ \/ OutsideRoot
       \/ ignored
       \/ fsKind # "file"
       \/ hasTrailingSlash(unixify(join(Root, decodeURI(rawPath).value)))

\* C22: without defer the middleware calls next() exactly once if and only if
\* respond() reports "not handled" (method, root, ignore, stat, directory,
\* trailing slash); it never calls next() when respond() reports handled or
\* throws 400, 412 or 416.
C22_NextIffNotHandled ==
    ~options.defer =>
        /\ Count("next") <= 1
        /\ Count("next") = 1 => (outcome = "notHandled" /\ pc = "returned")
        /\ (pc = "done" /\ outcome = "notHandled") => ENABLED FallThrough
        /\ Finished => (Count("next") = 1 <=> outcome = "notHandled")
        /\ (Finished /\ (method \notin {"GET", "HEAD"} \/ NoMatch)) => Count("next") = 1
        /\ (Finished /\ outcome \in {"handled", "400", "412", "416"}) => Count("next") = 0

\* An ignored path was passed on to next() once.
C22_Witness ==
    /\ ~options.defer
    /\ Finished
    /\ method = "GET" /\ ignored /\ fsKind = "file"
    /\ calls = <<"respond", "ignore", "next">>

\* C23: with defer respond() is called only after next() has been awaited and
\* has completed, so nothing is done for the request before next(); respond()
\* is then called exactly once.
C23_DeferServesAfterNext ==
    options.defer =>
        /\ Count("next") <= 1 /\ Count("respond") <= 1
        /\ calls # <<>> => calls[1] = "next"
        /\ Count("respond") = 1 => (calls[2] = "respond" /\ pc \notin {"middleware", "failed"})
        /\ pc = "middleware" => (calls = <<>> /\ resStatus = 404 /\ resBody = "unset"
                                   /\ resHeaders = NoHeaders)
        /\ pc = "failed" => calls = <<"next">>
        /\ (Finished /\ pc # "failed") => Count("respond") = 1

\* A deferred GET was served after next().
C23_Witness ==
    /\ options.defer
    /\ Finished
    /\ outcome = "handled"
    /\ resBody = "stream"
    /\ calls = <<"next", "respond", "ignore", "stat", "parseRanges", "stream">>

\* The checks respond() makes before stat have all passed.
StatAllowed ==
    /\ method \in {"GET", "HEAD"}
    /\ ~DecodeFails /\ ~HoldsNUL
    /\ ~OutsideRoot
    /\ ~ignored

\* respond() has left without a ReadStream as the body: not handled, 400, 412,
\* 416, a 304 or the answer to a HEAD.
NoStreamOutcome ==
    \/ outcome \in {"notHandled", "400", "412", "416"}
    \/ outcome = "handled" /\ (resStatus = 304 \/ method = "HEAD")

\* C32: a ReadStream is constructed only on the last outcome of a GET, the
\* stream as the body; every other outcome of respond() (not handled, 400,
\* 412, 304, the answer to HEAD, 416) constructs no stream, opens no
\* descriptor and issues no read. stat is called at most once for a request,
\* and only after the method, decode, root and ignore checks have passed.
C32_StreamOnlyWhenServed ==
    /\ Count("stream") <= 1
    /\ Count("stat") <= 1
    /\ Count("stat") = 1 =>
          /\ StatAllowed
          /\ \E i \in 2..Len(calls) : calls[i] = "stat" /\ calls[i - 1] = "ignore"
    /\ (Count("stream") = 1 \/ resBody = "stream" \/ ranges # <<>>
          \/ constructed \/ fd # "null" \/ reads # <<>> \/ out # <<>>) =>
          /\ method = "GET"
          /\ outcome = "handled"
          /\ resStatus \in {200, 206}
          /\ resBody = "stream"
          /\ calls[Len(calls)] = "stream"
          /\ Count("stat") = 1
    /\ NoStreamOutcome =>
          /\ Count("stream") = 0
          /\ resBody # "stream"
          /\ ranges = <<>>
          /\ ~constructed /\ fd = "null" /\ reads = <<>> /\ out = <<>>

\* A GET of a range past the end of the file was refused with 416 after one
\* stat, and no stream was made for it.
C32_Witness ==
    /\ Finished
    /\ method = "GET"
    /\ outcome = "416"
    /\ Count("stat") = 1
    /\ Count("stream") = 0
    /\ resBody # "stream"

\* C33: whenever respond() returns false the response is as it was when
\* respond() was entered: no status, header field, length, type or body has
\* been set, no stream made, and the middleware that next() runs without defer
\* finds the response untouched.
C33_NotHandledUntouched ==
    outcome = "notHandled" =>
        /\ AsOnEntry
        /\ Count("parseRanges") = 0 /\ Count("stream") = 0
        /\ ranges = <<>>
        /\ ~options.defer => (resStatus = 404 /\ resBody = "unset" /\ resHeaders = NoHeaders)

\* A GET of a directory was not handled after stat, and next() was called.
C33_Witness ==
    /\ outcome = "notHandled"
    /\ method = "GET" /\ fsKind = "dir"
    /\ calls = <<"respond", "ignore", "stat", "next">>
    /\ pc = "returned"

\* C38: with defer, when the middleware after this one has responded during
\* next() (it set a status or a body), the file service leaves that response as
\* it is; it sets status, header fields or body only if nothing has responded.
C38_DownstreamResponseKept ==
    (options.defer /\ downstream = "responded") => AsOnEntry

\* C39: isOutRoot answers true exactly for a joined path whose form relative to
\* the root begins with a `..` segment (or is absolute): a GET or HEAD whose
\* path decodes and holds no NUL goes on to the ignore and stat stages if and
\* only if the joined path lies inside the root, a name that ends in `..`
\* included.
C39_InRootProceeds ==
    (/\ method \in {"GET", "HEAD"}
     /\ ~DecodeFails /\ ~HoldsNUL
     /\ pc \in {"ignore", "stat", "headers", "done", "returned"}) =>
        (Count("ignore") = 1 <=> ~OutsideRoot)

\* ------------------------------------------------------------------ claims: order of the checks

\* respond() has got as far as the conditional check: the file exists and its
\* headers are set up.
Checked == pc = "done" /\ outcome # "notHandled" /\ \E i \in 1..Len(calls) : calls[i] = "stat"

PreconditionFails ==
    isConditionalGET(reqHeaders) /\ isPreconditionFailure(reqHeaders, resHeaders)

NeverNegotiated ==
    /\ \A i \in 1..Len(calls) : calls[i] \notin {"parseRanges", "stream"}
    /\ resBody # "stream"
    /\ ranges = <<>>

\* C19: a GET or HEAD request whose precondition fails ends with 412, whatever
\* its Range, If-Range and If-None-Match: the status is none of 304, 206 and
\* 416, parseRanges is not called and no stream is attached.
C19_PreconditionFirst ==
    (Checked /\ PreconditionFails) =>
        /\ outcome = "412"
        /\ resStatus \notin {304, 206, 416}
        /\ ContentRangeField = <<>>
        /\ NeverNegotiated

\* A request that is fresh and has a Range header is refused for its If-Match.
C19_Witness ==
    /\ Checked /\ PreconditionFails
    /\ get(reqHeaders, "If-None-Match") = StatETag
    /\ fresh(reqHeaders, resHeaders)
    /\ Range # <<>>
    /\ outcome = "412"

\* C20: a HEAD request for an existing file whose precondition holds and which is
\* not answered 304 is answered before the ranges are negotiated: the length is
\* the size of the file, the body null, the status 200, Content-Range is not
\* set even with a Range header, and respond() returns true.
C20_HeadShortCircuit ==
    (Checked /\ method = "HEAD" /\ ~PreconditionFails
        /\ ~(isConditionalGET(reqHeaders) /\ fresh(reqHeaders, resHeaders))) =>
        /\ outcome = "handled"
        /\ resLength = StatSize
        /\ resBody = "null"
        /\ resStatus = 200
        /\ ContentRangeField = <<>>
        /\ NeverNegotiated

\* A HEAD request with a satisfiable, fresh Range header is answered 200.
C20_Witness ==
    /\ Checked /\ method = "HEAD"
    /\ Honoured /\ Range = <<"bytes", "=", "0", "-", "0">>
    /\ outcome = "handled"
    /\ resLength = StatSize
    /\ resStatus = 200

\* The request is conditional and request.fresh holds against the headers set up.
Fresh == isConditionalGET(reqHeaders) /\ fresh(reqHeaders, resHeaders)

\* C21: a conditional request whose precondition does not fail and which is
\* fresh is answered 304 with a null body and reported handled; the ranges are
\* not negotiated even with a Range header.
C21_NotModified ==
    (Checked /\ ~PreconditionFails /\ Fresh) =>
        /\ outcome = "handled"
        /\ resStatus = 304
        /\ resBody = "null"
        /\ resLength = -1
        /\ ContentRangeField = <<>>
        /\ NeverNegotiated

\* If-None-Match names the current ETag on a GET with a Range header the file
\* could satisfy.
C21_Witness ==
    /\ Checked /\ method = "GET"
    /\ get(reqHeaders, "If-None-Match") = StatETag
    /\ get(resHeaders, "ETag") = StatETag
    /\ Range = <<"bytes", "=", "0", "-", "0">>
    /\ resStatus = 304
    /\ resBody = "null"

\* ------------------------------------------------------------------ claims: options

AcceptRangesField == get(resHeaders, "Accept-Ranges")

\* A GET with a Range header that is answered neither 412 nor 304.
RangedGet ==
    /\ Checked /\ method = "GET"
    /\ Range # <<>>
    /\ ~PreconditionFails /\ ~Fresh

\* The whole file is the body: status 200, the length of the file, no
\* Content-Range, one range without padding.
IsFullFileResponse ==
    /\ outcome = "handled"
    /\ resStatus = 200
    /\ resLength = StatSize
    /\ ContentRangeField = <<>>
    /\ resBody = "stream"
    /\ ranges = FullRangeSet

Supplied(name) == get(options.headers, name)

\* The validators the response is to carry: none when the option is false, the
\* supplied one when there is one, else the generated one.
Validators ==
    Fields([n \in {"ETag", "Last-Modified"} |->
              IF n = "ETag"
              THEN IF ~options.etag THEN <<>>
                   ELSE IF Supplied(n) # <<>> THEN Supplied(n) ELSE StatETag
              ELSE IF ~options.lastModified THEN <<>>
                   ELSE IF Supplied(n) # <<>> THEN Supplied(n) ELSE StatLastModified])

\* C25: an ETag or Last-Modified supplied through the headers option, while
\* the etag / lastModified option is not false, is on the response unchanged
\* after setupHeaders, and it is the value the precondition, freshness and
\* If-Range checks use.
C25_SuppliedValidators ==
    Checked =>
        /\ (options.etag /\ Supplied("ETag") # <<>>) =>
               get(resHeaders, "ETag") = Supplied("ETag")
        /\ (options.lastModified /\ Supplied("Last-Modified") # <<>>) =>
               get(resHeaders, "Last-Modified") = Supplied("Last-Modified")
        /\ outcome = "412" <=>
               (isConditionalGET(reqHeaders) /\ isPreconditionFailure(reqHeaders, Validators))
        /\ resStatus = 304 <=>
               /\ isConditionalGET(reqHeaders)
               /\ ~isPreconditionFailure(reqHeaders, Validators)
               /\ fresh(reqHeaders, Validators)
        /\ (RangedGet /\ options.acceptRanges) =>
               (resLength = StatSize <=> ~isRangeFresh(reqHeaders, Validators))

\* The supplied ETag "x" is on the response, If-Match "x" passed and a Range
\* with If-Range "x" was honoured.
C25_Witness ==
    /\ RangedGet
    /\ options.etag /\ options.acceptRanges
    /\ Supplied("ETag") = Quoted("x")
    /\ get(resHeaders, "ETag") = Quoted("x")
    /\ get(reqHeaders, "If-Match") = Quoted("x")
    /\ get(reqHeaders, "If-Range") = Quoted("x")
    /\ resStatus = 206

\* C26: an Accept-Ranges value supplied through the headers option is the
\* value on the response after setupHeaders, and the one that decides whether
\* the ranges are negotiated.
C26_SuppliedAcceptRanges ==
    (Checked /\ Supplied("Accept-Ranges") # <<>>) =>
        /\ AcceptRangesField = Supplied("Accept-Ranges")
        /\ (RangedGet /\ Supplied("Accept-Ranges") = <<"none">>) => IsFullFileResponse

\* ------------------------------------------------------------------ claims: served streams

RECURSIVE PartsLength(_, _)

\* The sum over the ranges of rs from the i-th on of range length + prefix length.
PartsLength(rs, i) ==
    IF i > Len(rs) THEN 0
    ELSE rs[i].length + Len(rs[i].prefix.data) + PartsLength(rs, i + 1)

\* C13: for every outcome that attaches a stream (full file, single range,
\* multipart), the response length equals the number of bytes the ReadStream
\* emits for the RangeSet when the file is unchanged; for a multipart outcome it
\* is the sum of range length + prefix length over the ranges plus the length of
\* the closing suffix.
C13_LengthIsBytesEmitted ==
    resBody = "stream" =>
        /\ (ended /\ fileLen = StatSize) => Len(out) = resLength
        /\ Len(out) <= resLength
        /\ Len(ranges) > 1 =>
              resLength = PartsLength(ranges, 1) + Len(ranges[Len(ranges)].suffix.data)

\* A three-part body has been streamed to its end.
C13_Witness ==
    /\ resBody = "stream"
    /\ ended /\ fileLen = StatSize
    /\ Len(ranges) = 3
    /\ Len(out) = resLength

\* The delimiter line of part i (from 1) of a multipart body and its header
\* lines, for the range r: CRLF before every part but the first.
PartHeader(i, r) ==
    BufferFrom((IF i > 1 THEN <<"\r\n">> ELSE <<>>)
               \o <<"--", Boundary, "\r\n", "Content-Type: ", "mime", "\r\n",
                    "Content-Range: ", "bytes ", ToString(r.offset), "-",
                    ToString(r.offset + r.length - 1), "/", ToString(StatSize),
                    "\r\n\r\n">>)

\* CRLF --boundary-- CRLF
ClosingDelimiter == BufferFrom(<<"\r\n", "--", Boundary, "--", "\r\n">>)

RECURSIVE Framed(_, _)

\* The multipart body of the ranges of rs from the i-th on.
Framed(rs, i) ==
    IF i > Len(rs) THEN ClosingDelimiter
    ELSE PartHeader(i, rs[i]) \o FileBytes(rs[i].offset, rs[i].length) \o Framed(rs, i + 1)

\* The places of bytes where --boundary stands.
Delimiters(bytes) ==
    {i \in 1..(Len(bytes) - 1) : bytes[i] = ByteOf("--") /\ bytes[i + 1] = ByteOf(Boundary)}

\* C14: in a multipart outcome with k >= 2 ranges every entry has a prefix with
\* its own Content-Range line, the first without a leading CRLF and every
\* later one with it, and the closing suffix is on the last entry only; the
\* emitted stream holds k part delimiters, each followed by the bytes of its
\* part, and one closing delimiter at its very end.
C14_MultipartFraming ==
    (resBody = "stream" /\ Len(ranges) >= 2) =>
        /\ Len(ranges) = Len(ByteRanges)
        /\ resType = "multipart/byteranges"
        /\ \A i \in 1..Len(ranges) :
              /\ ranges[i].offset = ByteRanges[i].start
              /\ ranges[i].offset + ranges[i].length - 1 = ByteRanges[i].end
              /\ ranges[i].prefix = Buf(PartHeader(i, ranges[i]))
              /\ (ranges[i].prefix.data[1] = ByteOf("\r\n")) <=> (i > 1)
              /\ ranges[i].suffix = IF i = Len(ranges) THEN Buf(ClosingDelimiter)
                                    ELSE Absent
        /\ (ended /\ fileLen = StatSize) =>
              /\ out = Framed(ranges, 1)
              /\ Cardinality(Delimiters(out)) = Len(ranges) + 1
              /\ SubSeq(out, Len(out) - 4, Len(out)) = ClosingDelimiter

\* A three-part body, its ranges out of the order of the file, was streamed.
C14_Witness ==
    /\ resBody = "stream"
    /\ Len(ranges) = 3
    /\ ranges[1].offset > ranges[2].offset
    /\ ended /\ fileLen = StatSize
    /\ out = Framed(ranges, 1)

====
